---- MODULE Spec2Model ----
(***************************************************************************)
(* Model of the example MCP servers of syrin-labs/cli:                     *)
(*   - mcp-examples/stdio-py/server.py : line-delimited JSON-RPC on stdio  *)
(*   - mcp-examples/http-py/server.py  : JSON-RPC over one HTTP POST       *)
(*   - parth/server.py, examples/demo-mcp-py : FastMCP tool handlers       *)
(*                                                                         *)
(* Conventions.  A Python str used only as an opaque value is a TLA+       *)
(* string.  A str that the code inspects character by character (the       *)
(* weather condition) is a sequence of one-character strings.  An f-string *)
(* is the sequence of its literal pieces and interpolated values.          *)
(* json.dumps of a dict literal is the sequence of its <<key, value>>      *)
(* pairs in insertion order.  Python None is the string None below.        *)
(***************************************************************************)
EXTENDS Integers, Sequences, FiniteSets, TLC

\* ------------------------------------------------------------------ bounds
MaxLines == 2          \* lines the stdio server reads in one run
MaxPosts == 2          \* POSTs served by the HTTP endpoint in one run
MaxCalls == 2          \* tools/call requests served by the FastMCP server
MaxSession == 3        \* messages one client sends to both servers in a session
MaxInflight == 2       \* HTTP connections served concurrently
MaxPipe == 3           \* lines the client writes to the pipe of the stdio server
MaxTimes == 2          \* timestamps in one upstream forecast response

\* ------------------------------------------------------- Python primitives
None == "<None>"                   \* Python None / JSON null / absent key read by .get
UnhashableLoc == "<['x']>"         \* a non-empty JSON array given as location
NoneObj == [none |-> TRUE]         \* None where a dict is expected (result=None, error=None)

Upper == <<"A","B","C","D","E","F","G","H","I","J","K","L","M",
           "N","O","P","Q","R","S","T","U","V","W","X","Y","Z">>
Lower == <<"a","b","c","d","e","f","g","h","i","j","k","l","m",
           "n","o","p","q","r","s","t","u","v","w","x","y","z">>

\* str.lower() on one character
lower_char(c) ==
    IF \E i \in 1..26 : Upper[i] = c
    THEN Lower[CHOOSE i \in 1..26 : Upper[i] = c]
    ELSE c

\* str.lower()
lower(s) == [i \in 1..Len(s) |-> lower_char(s[i])]

\* the Python operator  sub in s  on strings
contains(sub, s) ==
    \E k \in 0..(Len(s) - Len(sub)) :
        \A j \in 1..Len(sub) : s[k + j] = sub[j]

\* truthiness of the value read by args.get("location")
falsy(v) == v \in {None, ""}

\* ----------------------------------------------------------- static tables
PartlyCloudy == <<"P","a","r","t","l","y"," ","C","l","o","u","d","y">>
Sunny        == <<"S","u","n","n","y">>
Hot          == <<"H","o","t">>
Humid        == <<"H","u","m","i","d">>

weather_data ==
    [ Bengaluru |-> [temperature |-> 28, condition |-> PartlyCloudy, humidity |-> 65, windSpeed |-> 12],
      Mumbai    |-> [temperature |-> 32, condition |-> Sunny,        humidity |-> 75, windSpeed |-> 15],
      Delhi     |-> [temperature |-> 35, condition |-> Hot,          humidity |-> 45, windSpeed |-> 10],
      Chennai   |-> [temperature |-> 30, condition |-> Humid,        humidity |-> 80, windSpeed |-> 18] ]

MasalaDosa    == "Hot Masala Dosa with Sambar and Chutney - perfect for a cozy rainy day!"
CoolRaita     == "Cool Raita, Fresh Fruit Salad, and Lemon Rice - refreshing for hot weather!"
HotBiryani    == "Hot Biryani with Raita and Gulab Jamun - warming comfort food!"
ButterChicken == "Butter Chicken with Naan and Mango Lassi - a balanced meal for pleasant weather!"

\* get_food_recommendation with the temperature bounds included in the rules
get_food_recommendation_inclusive_bounds(condition, temperature) ==
    LET condition_lower == lower(condition) IN
    IF contains(<<"r","a","i","n">>, condition_lower)
       \/ contains(<<"c","l","o","u","d","y">>, condition_lower)
    THEN MasalaDosa
    ELSE IF contains(<<"s","u","n","n","y">>, condition_lower) \/ temperature >= 30
    THEN CoolRaita
    ELSE IF contains(<<"c","o","l","d">>, condition_lower) \/ temperature <= 20
    THEN HotBiryani
    ELSE ButterChicken

get_food_recommendation(condition, temperature) ==
    LET condition_lower == lower(condition) IN
    IF contains(<<"r","a","i","n">>, condition_lower)
       \/ contains(<<"c","l","o","u","d","y">>, condition_lower)
    THEN MasalaDosa
    ELSE IF contains(<<"s","u","n","n","y">>, condition_lower) \/ temperature > 30
    THEN CoolRaita
    ELSE IF contains(<<"c","o","l","d">>, condition_lower) \/ temperature < 20
    THEN HotBiryani
    ELSE ButterChicken

\* ------------------------------------------------------- handler outcomes
Return(v)  == [tag |-> "return", value |-> v]
ReturnNone == [tag |-> "return", value |-> NoneObj]
Raise(msg) == [tag |-> "raise", msg |-> msg]

\* x.get(...) on a decoded JSON value of the given kind: only a dict has .get
is_mapping(kind) == kind \in {"absent", "map"}

no_attribute_get(kind) ==
    IF kind = "null" THEN <<"'NoneType' object has no attribute 'get'">>
    ELSE <<"'str' object has no attribute 'get'">>

unhashable_list == <<"unhashable type: 'list'">>

\* ------------------------------------------------------------ tool results
text_block(text) == [type |-> "text", text |-> text]

\* getCurrentLocation reporting a place other than the default of the callers
current_location_result_elsewhere ==
    [ content |-> << text_block(<< <<"location", "Nowhere">>,
                                   <<"message", <<"Current location retrieved successfully.">> >> >>) >>,
      isError |-> FALSE ]

current_location_result ==
    [ content |-> << text_block(<< <<"location", "Bengaluru">>,
                                   <<"message", <<"Current location retrieved successfully.">> >> >>) >>,
      isError |-> FALSE ]

weather_unavailable_result(location) ==
    [ content |-> << [ type |-> "text",
                       text |-> << <<"error", <<"Weather data ", "not available", " for location: ", location>> >> >>,
                       isError |-> TRUE ] >> ]

\* the getWeather payload with humidity and windSpeed exchanged
weather_result_fields_swapped(location, weather) ==
    [ content |-> << text_block(<< <<"location", location>>,
                                   <<"temperature", weather.temperature>>,
                                   <<"condition", weather.condition>>,
                                   <<"humidity", weather.windSpeed>>,
                                   <<"windSpeed", weather.humidity>>,
                                   <<"unit", "Celsius">>,
                                   <<"message", <<"Weather retrieved for ", location, ".">> >> >>) >>,
      isError |-> FALSE ]

weather_result(location, weather) ==
    [ content |-> << text_block(<< <<"location", location>>,
                                   <<"temperature", weather.temperature>>,
                                   <<"condition", weather.condition>>,
                                   <<"humidity", weather.humidity>>,
                                   <<"windSpeed", weather.windSpeed>>,
                                   <<"unit", "Celsius">>,
                                   <<"message", <<"Weather retrieved for ", location, ".">> >> >>) >>,
      isError |-> FALSE ]

order_unavailable_result(location) ==
    [ content |-> << [ type |-> "text",
                       text |-> << <<"error", <<"Cannot order food: ", "Weather data ", "not available",
                                                " for location: ", location>> >> >>,
                       isError |-> TRUE ] >> ]

order_result(location, weather) ==
    [ content |-> << text_block(<< <<"location", location>>,
                                   <<"weather", << <<"temperature", weather.temperature>>,
                                                   <<"condition", weather.condition>> >> >>,
                                   <<"order", get_food_recommendation(weather.condition, weather.temperature)>>,
                                   <<"status", "Ordered">>,
                                   <<"message", <<"Food ordered based on weather in ", location, ".">> >> >>) >>,
      isError |-> FALSE ]

\* ------------------------------------------------- decoded JSON requests
\* A JSON object read by the server.  Keys read with .get are None when the
\* key is absent or null.  params and arguments carry the kind of JSON value
\* found under the key: "absent", "null", "str" (a non-mapping) or "map".
Arguments(ak, location, topic) == [ak |-> ak, location |-> location, topic |-> topic]
Params(pk, name, uri, arguments) == [pk |-> pk, name |-> name, uri |-> uri, arguments |-> arguments]
Request(id, method, params) == [kind |-> "object", id |-> id, method |-> method, params |-> params]

NoArguments == Arguments("absent", None, None)
NoParams    == Params("absent", None, None, NoArguments)

Ids == {None, "req-1", "req-2"}

Locations == {None, "", "Bengaluru", "Mumbai", "Delhi", "Chennai", "Nowhere", UnhashableLoc}

LocationArguments ==
    {Arguments("map", l, None) : l \in Locations} \cup {Arguments("null", None, None)}

ToolCallParams ==
    {Params("null", None, None, NoArguments), Params("str", None, None, NoArguments)}
    \cup {Params("map", "getCurrentLocation", None, NoArguments)}
    \cup {Params("map", n, None, a) : n \in {"getWeather", "orderFood"}, a \in LocationArguments}
    \cup {Params("map", n, None, NoArguments) : n \in {"getweather", None}}

PromptGetParams ==
    {Params("null", None, None, NoArguments)}
    \cup {Params("map", "explain", None, a) :
              a \in {NoArguments, Arguments("null", None, None), Arguments("map", None, "recursion")}}
    \cup {Params("map", "Explain", None, NoArguments)}

ResourceReadParams ==
    {Params("null", None, None, NoArguments)}
    \cup {Params("map", None, u, NoArguments) :
              u \in {"example://greeting", "example://greeting/", "EXAMPLE://GREETING", None}}

RoutedMethods ==
    {"initialize", "tools/list", "tools/call", "prompts/list", "prompts/get",
     "resources/list", "resources/read"}

MethodParams ==
    {<<m, NoParams>> : m \in {"initialize", "tools/list", "prompts/list", "resources/list", "foo/bar", None}}
    \cup {<<"tools/call", p>> : p \in ToolCallParams}
    \cup {<<"prompts/get", p>> : p \in PromptGetParams}
    \cup {<<"resources/read", p>> : p \in ResourceReadParams}

Requests == {Request(id, mp[1], mp[2]) : id \in Ids, mp \in MethodParams}

\* =========================================================================
\* mcp-examples/stdio-py/server.py
\* =========================================================================
\* send_response that always sets the result key, next to error
send_response_result_always(response_id, result, error) ==
    IF error # NoneObj
    THEN [jsonrpc |-> "2.0", id |-> response_id, result |-> result, error |-> error]
    ELSE [jsonrpc |-> "2.0", id |-> response_id, result |-> result]

send_response(response_id, result, error) ==
    IF error # NoneObj
    THEN [jsonrpc |-> "2.0", id |-> response_id, error |-> error]
    ELSE [jsonrpc |-> "2.0", id |-> response_id, result |-> result]

handle_initialize(request) ==
    [ protocolVersion |-> "2024-11-05",
      capabilities |-> [tools |-> [listChanged |-> TRUE], prompts |-> <<>>, resources |-> <<>>],
      serverInfo |-> [name |-> "example-stdio-py-server", version |-> "1.0.0"] ]

location_property ==
    [location |-> [type |-> "string",
                   description |-> "Location name (optional, defaults to current location)"]]

\* handle_tools_list with orderFood listed before getWeather
tool_entries_reordered ==
    << [ name |-> "getCurrentLocation",
         description |-> "Get the current location. Returns Bengaluru.",
         inputSchema |-> [type |-> "object", properties |-> <<>>] ],
       [ name |-> "orderFood",
         description |-> "Order food based on weather-mood. This will first check the weather, then recommend food based on the weather conditions.",
         inputSchema |-> [type |-> "object", properties |-> location_property] ],
       [ name |-> "getWeather",
         description |-> "Get weather information for a location. If no location is passed, it will get the current location first.",
         inputSchema |-> [type |-> "object", properties |-> location_property] ] >>

tool_entries ==
    << [ name |-> "getCurrentLocation",
         description |-> "Get the current location. Returns Bengaluru.",
         inputSchema |-> [type |-> "object", properties |-> <<>>] ],
       [ name |-> "getWeather",
         description |-> "Get weather information for a location. If no location is passed, it will get the current location first.",
         inputSchema |-> [type |-> "object", properties |-> location_property] ],
       [ name |-> "orderFood",
         description |-> "Order food based on weather-mood. This will first check the weather, then recommend food based on the weather conditions.",
         inputSchema |-> [type |-> "object", properties |-> location_property] ] >>

handle_tools_list(request) == [tools |-> tool_entries]

handle_tools_call(request) ==
    LET params == request.params IN
    IF ~is_mapping(params.pk) THEN Raise(no_attribute_get(params.pk))
    ELSE
    LET name == params.name
        args == params.arguments
    IN
    IF name = "getCurrentLocation" THEN Return(current_location_result)
    ELSE IF name = "getWeather" THEN
        IF ~is_mapping(args.ak) THEN Raise(no_attribute_get(args.ak))
        ELSE LET location == IF falsy(args.location) THEN "Bengaluru" ELSE args.location IN
             IF location = UnhashableLoc THEN Raise(unhashable_list)
             ELSE IF location \notin DOMAIN weather_data
             THEN Return(weather_unavailable_result(location))
             ELSE Return(weather_result(location, weather_data[location]))
    ELSE IF name = "orderFood" THEN
        IF ~is_mapping(args.ak) THEN Raise(no_attribute_get(args.ak))
        ELSE LET location == IF falsy(args.location) THEN "Bengaluru" ELSE args.location IN
             IF location = UnhashableLoc THEN Raise(unhashable_list)
             ELSE IF location \notin DOMAIN weather_data
             THEN Return(order_unavailable_result(location))
             ELSE Return(order_result(location, weather_data[location]))
    ELSE ReturnNone

handle_prompts_list(request) ==
    [ prompts |-> << [ name |-> "explain",
                       description |-> "Explain code or concept",
                       arguments |-> << [name |-> "topic", description |-> "Topic to explain",
                                         required |-> TRUE] >> ] >> ]

handle_prompts_get(request) ==
    LET params == request.params IN
    IF ~is_mapping(params.pk) THEN Raise(no_attribute_get(params.pk))
    ELSE
    LET name == params.name
        args == params.arguments
    IN
    IF name = "explain" THEN
        IF ~is_mapping(args.ak) THEN Raise(no_attribute_get(args.ak))
        ELSE LET topic == IF args.topic = None THEN "" ELSE args.topic IN
             Return([ messages |-> << [ role |-> "user",
                                        content |-> [type |-> "text",
                                                     text |-> <<"Please explain: ", topic>>] ] >> ])
    ELSE ReturnNone

handle_resources_list(request) ==
    [ resources |-> << [ uri |-> "example://greeting", name |-> "Greeting",
                         description |-> "A greeting message", mimeType |-> "text/plain" ] >> ]

\* handle_resources_read resolving a URI by prefix
handle_resources_read_by_prefix(request) ==
    LET params == request.params IN
    IF ~is_mapping(params.pk) THEN Raise(no_attribute_get(params.pk))
    ELSE
    LET uri == params.uri IN
    IF uri \in {"example://greeting", "example://greeting/"}
    THEN Return([ contents |-> << [ uri |-> uri, mimeType |-> "text/plain",
                                    text |-> "Hello from Python stdio MCP server with dependent tools!" ] >> ])
    ELSE ReturnNone

handle_resources_read(request) ==
    LET params == request.params IN
    IF ~is_mapping(params.pk) THEN Raise(no_attribute_get(params.pk))
    ELSE
    LET uri == params.uri IN
    IF uri = "example://greeting"
    THEN Return([ contents |-> << [ uri |-> uri, mimeType |-> "text/plain",
                                    text |-> "Hello from Python stdio MCP server with dependent tools!" ] >> ])
    ELSE ReturnNone

initialized_notification == [jsonrpc |-> "2.0", method |-> "notifications/initialized"]

\* the final else of main() answering with the code of an invalid request
method_not_found_invalid_request(method) == [code |-> -32600, message |-> <<"Method not found: ", method>>]

method_not_found(method) == [code |-> -32601, message |-> <<"Method not found: ", method>>]
unknown(what) == [code |-> -32601, message |-> <<what>>]
internal_error(msg) == [code |-> -32603, message |-> msg]

parse_error_response ==
    [jsonrpc |-> "2.0", id |-> None, error |-> [code |-> -32700, message |-> <<"Parse error">>]]

\* What the body of the try block writes for a decoded JSON object, or the
\* exception it raises: the if/elif chain on method of main().
\*   [tag |-> "wrote", out |-> lines written]   or   [tag |-> "raise", msg |-> ...]
Wrote(out) == [tag |-> "wrote", out |-> out]

\* main() reporting an unknown name as a failed call instead of a protocol error
reply_or_unknown_as_tool_failure(request_id, outcome, what) ==
    IF outcome.tag = "raise" THEN outcome
    ELSE IF outcome.value # NoneObj
    THEN [tag |-> "wrote", out |-> <<send_response(request_id, outcome.value, NoneObj)>>]
    ELSE [tag |-> "wrote",
          out |-> <<send_response(request_id,
                                  [content |-> <<text_block(<< <<"error", <<what>> >> >>)>>, isError |-> TRUE],
                                  NoneObj)>>]

\* result = handler(request); if result: send result else: send error
reply_or_unknown(request_id, outcome, what) ==
    IF outcome.tag = "raise" THEN outcome
    ELSE IF outcome.value # NoneObj
    THEN Wrote(<<send_response(request_id, outcome.value, NoneObj)>>)
    ELSE Wrote(<<send_response(request_id, NoneObj, unknown(what))>>)

dispatch(request) ==
    LET method == request.method
        request_id == request.id
    IN
    IF method = "initialize"
    THEN Wrote(<<send_response(request_id, handle_initialize(request), NoneObj),
                 initialized_notification>>)
    ELSE IF method = "tools/list"
    THEN Wrote(<<send_response(request_id, handle_tools_list(request), NoneObj)>>)
    ELSE IF method = "tools/call"
    THEN reply_or_unknown(request_id, handle_tools_call(request), "Unknown tool")
    ELSE IF method = "prompts/list"
    THEN Wrote(<<send_response(request_id, handle_prompts_list(request), NoneObj)>>)
    ELSE IF method = "prompts/get"
    THEN reply_or_unknown(request_id, handle_prompts_get(request), "Unknown prompt")
    ELSE IF method = "resources/list"
    THEN Wrote(<<send_response(request_id, handle_resources_list(request), NoneObj)>>)
    ELSE IF method = "resources/read"
    THEN reply_or_unknown(request_id, handle_resources_read(request), "Unknown resource")
    ELSE Wrote(<<send_response(request_id, NoneObj, method_not_found(method))>>)

\* ---------------------------------------------------------- input lines
\* What one call of sys.stdin.readline() followed by json.loads(line.strip())
\* can meet:
\*   eof        readline returns ''                        (end of the stream)
\*   blank      a line of white space only, "\n"           (loads('') fails)
\*   malformed  text that is not JSON, "{not json"
\*   fault      an Exception other than JSONDecodeError raised before request
\*              is assigned (undecodable bytes in readline, RecursionError)
\*   nonobject  valid JSON that is not an object: 5, "s", [1], null
\*   object     a JSON object
Unbound == [kind |-> "unbound"]
OtherLines == {[kind |-> k] : k \in {"eof", "blank", "malformed", "fault", "nonobject"}}
Lines == Requests \cup OtherLines

\* One iteration of the while loop of main() from the state (request = the
\* local variable left by earlier iterations).  Returns the lines written,
\* the new value of request and where control goes: "running" (next
\* iteration), "stopped" (break) or "crashed" (an exception left main).
Iteration(pc, request, out) == [pc |-> pc, request |-> request, out |-> out]

\* except Exception as e:  id = request.get("id") if 'request' in locals() else None
except_exception(request, msg) ==
    IF request.kind = "unbound"
    THEN Iteration("running", request, <<[jsonrpc |-> "2.0", id |-> None, error |-> internal_error(msg)]>>)
    ELSE IF request.kind = "object"
    THEN Iteration("running", request, <<[jsonrpc |-> "2.0", id |-> request.id, error |-> internal_error(msg)]>>)
    ELSE Iteration("crashed", request, <<>>)

\* main() with  break  in the JSONDecodeError handler: a parse error ends the loop
main_iteration_parse_error_breaks(request, line) ==
    IF line.kind = "eof" THEN Iteration("stopped", request, <<>>)
    ELSE IF line.kind \in {"blank", "malformed"}
    THEN Iteration("stopped", request, <<parse_error_response>>)
    ELSE IF line.kind = "fault"
    THEN except_exception(request, <<"fault while reading or decoding the line">>)
    ELSE IF line.kind = "nonobject"
    THEN except_exception(line, no_attribute_get("str"))
    ELSE LET body == dispatch(line) IN
         IF body.tag = "wrote" THEN Iteration("running", line, body.out)
         ELSE except_exception(line, body.msg)

\* main() without  if not line: break : the end of input is decoded like a line
main_iteration_eof_not_checked(request, line) ==
    IF line.kind \in {"eof", "blank", "malformed"}
    THEN Iteration("running", request, <<parse_error_response>>)
    ELSE IF line.kind = "fault"
    THEN except_exception(request, <<"fault while reading or decoding the line">>)
    ELSE IF line.kind = "nonobject"
    THEN except_exception(line, no_attribute_get("str"))
    ELSE LET body == dispatch(line) IN
         IF body.tag = "wrote" THEN Iteration("running", line, body.out)
         ELSE except_exception(line, body.msg)

main_iteration(request, line) ==
    IF line.kind = "eof" THEN Iteration("stopped", request, <<>>)
    ELSE IF line.kind \in {"blank", "malformed"}
    THEN Iteration("running", request, <<parse_error_response>>)
    ELSE IF line.kind = "fault"
    THEN except_exception(request, <<"fault while reading or decoding the line">>)
    ELSE IF line.kind = "nonobject"
    THEN except_exception(line, no_attribute_get("str"))
    ELSE LET body == dispatch(line) IN
         IF body.tag = "wrote" THEN Iteration("running", line, body.out)
         ELSE except_exception(line, body.msg)

\* =========================================================================
\* mcp-examples/http-py/server.py
\* =========================================================================
http_weather_data ==
    [ Bengaluru |-> [temperature |-> 28, condition |-> PartlyCloudy, humidity |-> 65, windSpeed |-> 12],
      Mumbai    |-> [temperature |-> 32, condition |-> Sunny,        humidity |-> 75, windSpeed |-> 15],
      Delhi     |-> [temperature |-> 35, condition |-> Hot,          humidity |-> 45, windSpeed |-> 10],
      Chennai   |-> [temperature |-> 30, condition |-> Humid,        humidity |-> 80, windSpeed |-> 18] ]

\* JSONResponse(content): status code 200
JSONResponse(content) == [status |-> 200, body |-> content]

\* an exception that leaves the endpoint function: the framework answers 500
ServerError == [status |-> 500, body |-> [detail |-> "Internal Server Error"]]

http_initialize_result ==
    [ protocolVersion |-> "2024-11-05",
      capabilities |-> [tools |-> [listChanged |-> TRUE], prompts |-> <<>>, resources |-> <<>>],
      serverInfo |-> [name |-> "example-http-py-server", version |-> "1.0.0"] ]

http_tool_entries ==
    << [ name |-> "getCurrentLocation",
         description |-> "Get the current location. Returns Bengaluru.",
         inputSchema |-> [type |-> "object", properties |-> <<>>] ],
       [ name |-> "getWeather",
         description |-> "Get weather information for a location. If no location is passed, it will get the current location first.",
         inputSchema |-> [type |-> "object", properties |-> location_property] ],
       [ name |-> "orderFood",
         description |-> "Order food based on weather-mood. This will first check the weather, then recommend food based on the weather conditions.",
         inputSchema |-> [type |-> "object", properties |-> location_property] ] >>

http_result(request_id, result) == JSONResponse([jsonrpc |-> "2.0", id |-> request_id, result |-> result])
http_error(request_id, error)   == JSONResponse([jsonrpc |-> "2.0", id |-> request_id, error |-> error])

\* the tools/call branch of the endpoint: a response, or the exception raised
http_tools_call(params, request_id) ==
    IF ~is_mapping(params.pk) THEN Raise(no_attribute_get(params.pk))
    ELSE
    LET tool_name == params.name
        tool_args == params.arguments
    IN
    IF tool_name = "getCurrentLocation" THEN Return(http_result(request_id, current_location_result))
    ELSE IF tool_name = "getWeather" THEN
        IF ~is_mapping(tool_args.ak) THEN Raise(no_attribute_get(tool_args.ak))
        ELSE LET location == IF falsy(tool_args.location) THEN "Bengaluru" ELSE tool_args.location IN
             IF location = UnhashableLoc THEN Raise(unhashable_list)
             ELSE IF location \notin DOMAIN http_weather_data
             THEN Return(http_result(request_id, weather_unavailable_result(location)))
             ELSE Return(http_result(request_id, weather_result(location, http_weather_data[location])))
    ELSE IF tool_name = "orderFood" THEN
        IF ~is_mapping(tool_args.ak) THEN Raise(no_attribute_get(tool_args.ak))
        ELSE LET location == IF falsy(tool_args.location) THEN "Bengaluru" ELSE tool_args.location IN
             IF location = UnhashableLoc THEN Raise(unhashable_list)
             ELSE IF location \notin DOMAIN http_weather_data
             THEN Return(http_result(request_id, order_unavailable_result(location)))
             ELSE Return(http_result(request_id, order_result(location, http_weather_data[location])))
    ELSE Return(http_error(request_id, [code |-> -32601, message |-> <<"Unknown tool: ", tool_name>>]))

\* the try block of the endpoint for a decoded JSON object
http_dispatch(body) ==
    LET method == body.method
        params == body.params
        request_id == body.id
    IN
    IF method = "initialize" THEN Return(http_result(request_id, http_initialize_result))
    ELSE IF method = "tools/list" THEN Return(http_result(request_id, [tools |-> http_tool_entries]))
    ELSE IF method = "tools/call" THEN http_tools_call(params, request_id)
    ELSE Return(http_error(request_id, [code |-> -32601, message |-> <<"Method not found: ", method>>]))

\* What  await request.json()  can meet:
\*   undecodable  a body that is not JSON (request.json() raises)
\*   nonobject    valid JSON that is not an object
\*   object       a JSON object
OtherBodies == {[kind |-> k] : k \in {"undecodable", "nonobject"}}
Bodies == Requests \cup OtherBodies

\* POST /mcp.  except Exception as e: id = body.get("id") if 'body' in locals() else None
mcp_endpoint(body) ==
    IF body.kind = "undecodable"
    THEN http_error(None, internal_error(<<"Expecting value: line 1 column 1 (char 0)">>))
    ELSE IF body.kind = "nonobject"
    THEN ServerError
    ELSE LET r == http_dispatch(body) IN
         IF r.tag = "return" THEN r.value
         ELSE http_error(body.id, internal_error(r.msg))

\* =========================================================================
\* parth/server.py and examples/demo-mcp-py: tools registered with FastMCP
\* =========================================================================
Missing == "<missing>"             \* the key is not in the arguments of the call
NotAStr == "<5>"                   \* a JSON value that is not a string

\* (the emoji that ends each description is left out)
WEATHER_DATA ==
    << [condition |-> "Sunny", temp |-> 28, humidity |-> 45, description |-> "Perfect beach weather!"],
       [condition |-> "Rainy", temp |-> 18, humidity |-> 85, description |-> "Grab your umbrella!"],
       [condition |-> "Snowy", temp |-> -5, humidity |-> 70, description |-> "Winter wonderland!"],
       [condition |-> "Cloudy", temp |-> 22, humidity |-> 60, description |-> "Overcast skies ahead"],
       [condition |-> "Windy", temp |-> 20, humidity |-> 50, description |-> "Hold onto your hat!"],
       [condition |-> "Foggy", temp |-> 15, humidity |-> 95, description |-> "Visibility is low!"],
       [condition |-> "Stormy", temp |-> 16, humidity |-> 90, description |-> "Thunder and lightning!"],
       [condition |-> "Hot", temp |-> 35, humidity |-> 40, description |-> "Scorching hot day!"],
       [condition |-> "Cold", temp |-> 5, humidity |-> 55, description |-> "Bundle up!"],
       [condition |-> "Misty", temp |-> 12, humidity |-> 88, description |-> "Mysterious mist!"] >>

\* the food of each entry; the entry's funny comment is funny(food, weather)
WEATHER_FOOD_MAP ==
    [ Sunny |-> << "Ice Cream", "Fresh Salad", "Cold Smoothie", "BBQ Burger", "Watermelon",
                   "Fish Tacos", "Gazpacho", "Frozen Yogurt", "Ceviche", "Popsicle" >>,
      Rainy |-> << "Hot Soup", "Grilled Cheese", "Mac and Cheese", "Chili", "Hot Chocolate",
                   "Fried Chicken", "Ramen", "Pot Pie", "Tea and Cookies", "Stew" >>,
      Snowy |-> << "Hot Cocoa", "Chili", "Soup", "Hot Pot", "Roasted Chicken",
                   "Lasagna", "Mulled Wine", "Baked Potato", "Fondue", "Goulash" >>,
      Cloudy |-> << "Sandwich", "Pasta", "Pizza", "Burrito", "Sushi",
                    "Quesadilla", "Wrap", "Panini", "Dumplings", "Tacos" >>,
      Windy |-> << "Soup", "Stew", "Casserole", "Meatloaf", "Shepherd's Pie",
                   "Curry", "Risotto", "Paella", "Jambalaya", "Gumbo" >>,
      Foggy |-> << "Soup", "Stew", "Chowder", "Bisque", "Porridge",
                   "Congee", "Broth", "Miso Soup", "Pho", "Ramen" >>,
      Stormy |-> << "Comfort Food", "Chili", "Soup", "Hot Chocolate", "Cookies",
                    "Brownies", "Pie", "Cake", "Pudding", "Ice Cream" >>,
      Hot |-> << "Ice Cream", "Smoothie", "Salad", "Ceviche", "Gazpacho",
                 "Sorbet", "Watermelon", "Cucumber Salad", "Cold Noodles", "Frozen Margarita" >>,
      Cold |-> << "Hot Soup", "Stew", "Hot Chocolate", "Chili", "Roast",
                  "Casserole", "Hot Pot", "Fondue", "Goulash", "Borscht" >>,
      Misty |-> << "Soup", "Tea", "Porridge", "Congee", "Broth",
                   "Miso Soup", "Pho", "Ramen", "Hot Toddy", "Egg Drop Soup" >> ]

WeatherEnum ==
    {"Sunny", "Rainy", "Snowy", "Cloudy", "Windy", "Foggy", "Stormy", "Hot", "Cold", "Misty"}

\* get_weather declared as  location: str = "" : the parameter has a default
tool_signatures_location_optional ==
    [ current_location |-> <<>>,
      get_weather |-> << [name |-> "location", type |-> "str", required |-> FALSE, enum |-> {}] >>,
      order_food  |-> << [name |-> "weather", type |-> "str", required |-> TRUE, enum |-> WeatherEnum] >> ]

\* The parameters each registered function declares: name, annotation,
\* whether it has no default (required), and the enum given to Field(...).
\* The annotation is str; enum is an extra key of the field's JSON schema.
tool_signatures ==
    [ current_location |-> <<>>,
      get_weather |-> << [name |-> "location", type |-> "str", required |-> TRUE, enum |-> {}] >>,
      order_food  |-> << [name |-> "weather", type |-> "str", required |-> TRUE, enum |-> WeatherEnum] >> ]

Tools == DOMAIN tool_signatures

current_location ==
    [ location |-> "",
      prompt |-> "What is your current location? Please provide your city, state, or address." ]

\* get_weather filling the weather field with the description of the entry
get_weather_weather_is_description(location, choice) ==
    LET weather_data_ == WEATHER_DATA[choice]
    IN [ weather |-> weather_data_.description,
         condition |-> weather_data_.condition,
         temperature |-> weather_data_.temp,
         humidity |-> weather_data_.humidity,
         description |-> <<"Weather for ", location, ": ", weather_data_.description>> ]

\* random.choice(WEATHER_DATA) is the entry at index choice
get_weather(location, choice) ==
    LET weather_data_ == WEATHER_DATA[choice]
        condition_value == weather_data_.condition
    IN [ weather |-> condition_value,
         condition |-> condition_value,
         temperature |-> weather_data_.temp,
         humidity |-> weather_data_.humidity,
         description |-> <<"Weather for ", location, ": ", weather_data_.description>> ]

funny(food, foods_of) == <<"funny", foods_of, food>>

\* WEATHER_FOOD_MAP.get(weather, WEATHER_FOOD_MAP["Sunny"]); random.choice(foods)
order_food(weather, choice) ==
    LET foods_of == IF weather \in DOMAIN WEATHER_FOOD_MAP THEN weather ELSE "Sunny"
        foods == WEATHER_FOOD_MAP[foods_of]
        food_item == foods[choice]
    IN [ food |-> food_item,
         recommendation |-> <<"Food Recommendation for ", weather, " Weather: Order: ", food_item>>,
         comment |-> funny(food_item, foods_of) ]

\* The call of a registered function with the arguments of a tools/call.
\* The arguments are bound to the declared parameters: a required parameter
\* that is missing, or a value that is not a str, fails with a validation
\* error that names the parameter.  The enum of Field(...) is a key of the
\* JSON schema only: it is enforced when the server validates the arguments
\* against the input schema (strict), and not by the binding itself.
bind_arguments(tool, arguments, strict) ==
    LET sig == tool_signatures[tool]
        bad == {i \in 1..Len(sig) :
                   \/ (sig[i].required /\ arguments[sig[i].name] = Missing)
                   \/ (arguments[sig[i].name] \in {None, NotAStr})
                   \/ (strict /\ sig[i].enum # {} /\ arguments[sig[i].name] \notin sig[i].enum \cup {Missing})}
    IN IF bad = {} THEN Return(arguments)
       ELSE LET i == CHOOSE i \in bad : \A j \in bad : i <= j IN
            IF arguments[sig[i].name] = Missing
            THEN Raise(<<"validation error for ", tool, ": ", sig[i].name, "Missing required argument">>)
            ELSE IF arguments[sig[i].name] \in {None, NotAStr}
            THEN Raise(<<"validation error for ", tool, ": ", sig[i].name, "Input should be a valid string">>)
            ELSE Raise(<<"validation error for ", tool, ": ", sig[i].name, "is not one of the enum values">>)

tool_error(tool, msg) ==
    [ content |-> << [type |-> "text", text |-> <<"Error calling tool '", tool, "': ">> \o msg] >>,
      isError |-> TRUE ]

tool_output(structured) ==
    [ content |-> << [type |-> "text", text |-> <<"json", structured>>] >>,
      structuredContent |-> structured,
      isError |-> FALSE ]

\* tools/call of a registered tool
call_tool(tool, arguments, strict, choice) ==
    LET bound == bind_arguments(tool, arguments, strict) IN
    IF bound.tag = "raise" THEN tool_error(tool, bound.msg)
    ELSE IF tool = "current_location" THEN tool_output(current_location)
    ELSE IF tool = "get_weather" THEN tool_output(get_weather(arguments.location, choice))
    ELSE tool_output(order_food(arguments.weather, choice))

LocationValues == {"Paris", "", Missing, None, NotAStr}
WeatherValues  == WeatherEnum \cup {"Tornado", "sunny", "", Missing, None, NotAStr}

ToolArguments(tool) ==
    IF tool = "get_weather" THEN {[location |-> v] : v \in LocationValues}
    ELSE IF tool = "order_food" THEN {[weather |-> v] : v \in WeatherValues}
    ELSE {<<>>}

NoCall == [tool |-> None]

\* ------------------------------------------------- initial values
Connections == 1..MaxInflight
Idle == [phase |-> "idle"]         \* a connection that has sent no request
NoFile == "<no file>"              \* test_output.txt does not exist
NoLine == [kind |-> "none"]        \* main() is blocked in readline()
NoApplication == [fn |-> None]

\* ------------------------------------------------------------------ state
VARIABLES
    pc,        \* stdio: "running", "stopped" (loop left by break), "crashed"
    request,   \* stdio: the local variable request of main()
    stdin,     \* stdio: the lines read so far, in order
    stdout,    \* stdio: the lines written so far, in order
    mark,      \* stdio: mark[k] = Len(stdout) when the k-th line had been handled
    http,      \* http: the exchanges served so far, [body, response], in order
    call,      \* FastMCP: the last tools/call served, [tool, arguments, result]
    ncalls,    \* FastMCP: the number of tools/call requests served
    inflight,  \* concurrent HTTP: per connection, the request being served and its phase
    disk,      \* concurrent HTTP: the content of test_output.txt in the working directory
    pipe,      \* stdio pipe: the lines the client has written and main() has not read yet
    current,   \* stdio pipe: the line main() has read and not yet answered
    app        \* the last application of a library function, [fn, input, output]

\* the variables that the servers above do not touch
rest == <<inflight, disk, pipe, current, app>>

vars == <<pc, request, stdin, stdout, mark, http, call, ncalls, inflight, disk, pipe, current, app>>

StdioInit ==
    /\ pc = "running"
    /\ request = Unbound
    /\ stdin = <<>>
    /\ stdout = <<>>
    /\ mark = <<>>

HttpInit == http = <<>>

FastInit == call = NoCall /\ ncalls = 0

ConcurrentInit == inflight = [c \in Connections |-> Idle] /\ disk = NoFile

PipeInit == pipe = <<>> /\ current = NoLine

LibraryInit == app = NoApplication

Init == StdioInit /\ HttpInit /\ FastInit /\ ConcurrentInit /\ PipeInit /\ LibraryInit

\* ------------------------------------------------------------ stdio server
\* a server that answers "not initialized" until it has served initialize
StdioServe_requires_initialize(line) ==
    /\ LET it == IF /\ line.kind = "object"
                    /\ line.method # "initialize"
                    /\ ~\E k \in 1..Len(stdin) : stdin[k].kind = "object" /\ stdin[k].method = "initialize"
                 THEN Iteration("running", line,
                                <<send_response(line.id, NoneObj,
                                                [code |-> -32002, message |-> <<"Server not initialized">>])>>)
                 ELSE main_iteration(request, line)
       IN
         /\ pc' = it.pc
         /\ request' = it.request
         /\ stdout' = stdout \o it.out
         /\ mark' = Append(mark, Len(stdout) + Len(it.out))
    /\ stdin' = Append(stdin, line)

\* a server whose tools/list drops a tool once a tools/call has been served
StdioServe_list_shrinks(line) ==
    /\ LET it == IF /\ line.kind = "object"
                    /\ line.method = "tools/list"
                    /\ \E k \in 1..Len(stdin) : stdin[k].kind = "object" /\ stdin[k].method = "tools/call"
                 THEN Iteration("running", line,
                                <<send_response(line.id, [tools |-> SubSeq(tool_entries, 1, 2)], NoneObj)>>)
                 ELSE main_iteration(request, line)
       IN
         /\ pc' = it.pc
         /\ request' = it.request
         /\ stdout' = stdout \o it.out
         /\ mark' = Append(mark, Len(stdout) + Len(it.out))
    /\ stdin' = Append(stdin, line)

StdioServe(line) ==
    /\ LET it == main_iteration(request, line) IN
         /\ pc' = it.pc
         /\ request' = it.request
         /\ stdout' = stdout \o it.out
         /\ mark' = Append(mark, Len(stdout) + Len(it.out))
    /\ stdin' = Append(stdin, line)

StdioStep(line) ==
    /\ pc = "running"
    /\ Len(stdin) < MaxLines
    /\ StdioServe(line)

ReadLine(line) == StdioStep(line) /\ UNCHANGED <<http, call, ncalls, rest>>

main == \E line \in Lines : ReadLine(line)

Next == main
Spec == Init /\ [][Next]_vars

\* ------------------------------------------------------------- http server
HttpServe(body) == http' = Append(http, [body |-> body, response |-> mcp_endpoint(body)])

HttpStep(body) ==
    /\ Len(http) < MaxPosts
    /\ HttpServe(body)

Post(body) == HttpStep(body) /\ UNCHANGED <<pc, request, stdin, stdout, mark, call, ncalls, rest>>

post_mcp == \E body \in Bodies : Post(body)

NextHttp == post_mcp
SpecHttp == Init /\ [][NextHttp]_vars

\* ------------------------------------------- one client, both transports
\* A client that sends the same JSON object to the stdio server and to the
\* HTTP endpoint, request after request.
SendToBoth(r) == StdioStep(r) /\ HttpStep(r) /\ UNCHANGED <<call, ncalls, rest>>

send_to_both == \E r \in Requests : SendToBoth(r)

NextBoth == send_to_both
SpecBoth == Init /\ [][NextBoth]_vars

\* ------------------------------------------------- one client, a session
\* A client that sends a sequence of messages, each one to the stdio server
\* (as a line, while the process lives) and to the HTTP endpoint (as a body).
SessionMethodParams ==
    {<<m, NoParams>> : m \in {"initialize", "tools/list", "prompts/list", "resources/list", "foo/bar", None}}
    \cup {<<"tools/call", Params("map", "getCurrentLocation", None, NoArguments)>>,
          <<"tools/call", Params("map", "getweather", None, NoArguments)>>,
          <<"tools/call", Params("null", None, None, NoArguments)>>,
          <<"tools/call", Params("map", "getWeather", None, Arguments("null", None, None))>>}
    \cup {<<"tools/call", Params("map", n, None, Arguments("map", l, None))>> :
              n \in {"getWeather", "orderFood"}, l \in {None, "Bengaluru", "Nowhere"}}
    \cup {<<"prompts/get", Params("map", n, None, Arguments("map", None, "recursion"))>> :
              n \in {"explain", "Explain"}}
    \cup {<<"resources/read", Params("map", None, u, NoArguments)>> :
              u \in {"example://greeting", "example://greeting/"}}

SessionMessages ==
    {Request("req-1", mp[1], mp[2]) : mp \in SessionMethodParams}
    \cup {Request(id, "tools/list", NoParams) : id \in {None, "req-2"}}
    \cup {[kind |-> k] : k \in {"malformed", "fault", "nonobject"}}

\* the body the HTTP endpoint receives for a message: text that the stdio
\* server cannot read or decode is a body that request.json() cannot decode
BodyOf(message) ==
    IF message.kind \in {"blank", "malformed", "fault"} THEN [kind |-> "undecodable"] ELSE message

Send(message) ==
    /\ Len(http) < MaxSession
    /\ IF pc = "running" THEN StdioServe(message)
       ELSE UNCHANGED <<pc, request, stdin, stdout, mark>>
    /\ HttpServe(BodyOf(message))
    /\ UNCHANGED <<call, ncalls, rest>>

session == \E message \in SessionMessages : Send(message)

NextSession == session
SpecSession == Init /\ [][NextSession]_vars

\* ----------------------------------------------------------- FastMCP server
CallTool(tool, arguments, strict, choice) ==
    /\ ncalls < MaxCalls
    /\ call' = [ tool |-> tool, arguments |-> arguments, strict |-> strict,
                 result |-> call_tool(tool, arguments, strict, choice) ]
    /\ ncalls' = ncalls + 1
    /\ UNCHANGED <<pc, request, stdin, stdout, mark, http, rest>>

tools_call ==
    \E tool \in Tools : \E arguments \in ToolArguments(tool) :
        \E strict \in BOOLEAN : \E choice \in 1..Len(WEATHER_DATA) :
            CallTool(tool, arguments, strict, choice)

\* The client threads the weather field of the get_weather output it has just
\* received into the weather argument of order_food.
FeedWeather(strict, choice) ==
    /\ ncalls < MaxCalls
    /\ call.tool = "get_weather"
    /\ ~call.result.isError
    /\ call' = [ tool |-> "order_food",
                 arguments |-> [weather |-> call.result.structuredContent.weather],
                 strict |-> strict,
                 result |-> call_tool("order_food", [weather |-> call.result.structuredContent.weather],
                                      strict, choice),
                 fed_by |-> call.result.structuredContent ]
    /\ ncalls' = ncalls + 1
    /\ UNCHANGED <<pc, request, stdin, stdout, mark, http, rest>>

feed_weather == \E strict \in BOOLEAN : \E choice \in 1..Len(WEATHER_DATA) : FeedWeather(strict, choice)

NextFast == tools_call \/ feed_weather
SpecFast == Init /\ [][NextFast]_vars

\* ------------------------------------------ HTTP, concurrent connections
\* Each connection sends one tools/call.  A call of the example endpoint
\* (mcp-examples/http-py) suspends once, at  await request.json() , and then
\* runs to its response without yielding.  A call of test_e500_side_effect
\* (examples/demo-mcp-py/server.analyse.py, served over HTTP by FastMCP)
\* opens test_output.txt in the working directory for writing, which
\* truncates it, and writes data when the with block closes the file; other
\* connections may be served between the two steps.
TestOutputFile == "test_output.txt"

SideEffectCall(data) ==
    [kind |-> "object", server |-> "analyse", tool |-> "test_e500_side_effect", data |-> data]

IsSideEffectCall(body) == "server" \in DOMAIN body

\* TestE500Output(result="wrote to file", file=output_file)
test_e500_side_effect(data) ==
    tool_output([result |-> "wrote to file", file |-> TestOutputFile])

ConcurrentCalls ==
    {Request("req-1", "tools/call", Params("map", "getCurrentLocation", None, NoArguments)),
     Request("req-1", "tools/call", Params("map", "getweather", None, NoArguments))}
    \cup {Request("req-1", "tools/call", Params("map", n, None, Arguments("map", l, None))) :
              n \in {"getWeather", "orderFood"}, l \in {"Mumbai", "Nowhere"}}
    \cup {SideEffectCall(data) : data \in {"a", "b"}}

Accept(c, body) ==
    /\ inflight[c].phase = "idle"
    /\ inflight' = [inflight EXCEPT ![c] = [phase |-> "accepted", body |-> body]]
    /\ UNCHANGED <<disk, pc, request, stdin, stdout, mark, http, call, ncalls, pipe, current, app>>

\* the endpoint resumes after  await request.json()  and returns its response
Resume(c) ==
    /\ inflight[c].phase = "accepted"
    /\ ~IsSideEffectCall(inflight[c].body)
    /\ inflight' = [inflight EXCEPT ![c] = [phase |-> "done", body |-> inflight[c].body,
                                            response |-> mcp_endpoint(inflight[c].body)]]
    /\ UNCHANGED <<disk, pc, request, stdin, stdout, mark, http, call, ncalls, pipe, current, app>>

\* with open(output_file, 'w') as f:
OpenFile(c) ==
    /\ inflight[c].phase = "accepted"
    /\ IsSideEffectCall(inflight[c].body)
    /\ inflight' = [inflight EXCEPT ![c] = [phase |-> "opened", body |-> inflight[c].body]]
    /\ disk' = ""
    /\ UNCHANGED <<pc, request, stdin, stdout, mark, http, call, ncalls, pipe, current, app>>

\* f.write(data); the with block closes the file; return TestE500Output(...)
WriteFile(c) ==
    /\ inflight[c].phase = "opened"
    /\ inflight' = [inflight EXCEPT ![c] = [phase |-> "done", body |-> inflight[c].body,
                                            response |-> test_e500_side_effect(inflight[c].body.data)]]
    /\ disk' = inflight[c].body.data
    /\ UNCHANGED <<pc, request, stdin, stdout, mark, http, call, ncalls, pipe, current, app>>

NextConcurrent ==
    \E c \in Connections :
        \/ \E body \in ConcurrentCalls : Accept(c, body)
        \/ Resume(c)
        \/ OpenFile(c)
        \/ WriteFile(c)

SpecConcurrent == Init /\ [][NextConcurrent]_vars

\* ------------------------------------------- stdio server behind a pipe
\* The client writes lines to the pipe at its own pace; main() blocks in
\* readline() until a line is there, handles it and writes the reply before
\* it calls readline() again.  The end of the stream is the last thing the
\* pipe delivers.
PipeLines ==
    {Request(id, "tools/list", NoParams) : id \in {"req-1", "req-2"}}
    \cup {Request("req-1", "initialize", NoParams),
          Request("req-2", "tools/call", Params("null", None, None, NoArguments)),
          Request(None, "prompts/list", NoParams)}
    \cup {[kind |-> k] : k \in {"eof", "malformed", "fault", "nonobject"}}

\* all the lines the client has written, in order
Written == stdin \o (IF current = NoLine THEN <<>> ELSE <<current>>) \o pipe

ClientWrite(line) ==
    /\ Len(Written) < MaxPipe
    /\ \A i \in 1..Len(Written) : Written[i].kind # "eof"
    /\ pipe' = Append(pipe, line)
    /\ UNCHANGED <<current, pc, request, stdin, stdout, mark, http, call, ncalls, inflight, disk, app>>

\* line = sys.stdin.readline()
ServerRead ==
    /\ pc = "running"
    /\ current = NoLine
    /\ pipe # <<>>
    /\ current' = Head(pipe)
    /\ pipe' = Tail(pipe)
    /\ UNCHANGED <<pc, request, stdin, stdout, mark, http, call, ncalls, inflight, disk, app>>

\* the rest of the iteration: decode, dispatch, print, flush
ServerReply ==
    /\ pc = "running"
    /\ current # NoLine
    /\ StdioServe(current)
    /\ current' = NoLine
    /\ UNCHANGED <<pipe, http, call, ncalls, inflight, disk, app>>

NextPipe ==
    \/ \E line \in PipeLines : ClientWrite(line)
    \/ ServerRead
    \/ ServerReply

\* main() is the only thread of the process and never waits for anything
\* but readline(): a line in the pipe is read, a line read is answered
SpecPipe == Init /\ [][NextPipe]_vars /\ WF_vars(ServerRead) /\ WF_vars(ServerReply)

\* =========================================================================
\* Properties
\* =========================================================================
\* the lines the stdio server wrote while handling the k-th line it read
OutOf(k) == SubSeq(stdout, (IF k = 1 THEN 0 ELSE mark[k - 1]) + 1, mark[k])

HasResult(e) == "result" \in DOMAIN e /\ "error" \notin DOMAIN e
HasError(e)  == "error" \in DOMAIN e /\ "result" \notin DOMAIN e

IsToolsCall(r, name) ==
    /\ r.kind = "object"
    /\ r.method = "tools/call"
    /\ r.params.pk = "map"
    /\ r.params.name = name

\* a location argument that is a non-empty string and not a key of the table
UnknownLocation(r) ==
    /\ r.params.arguments.ak = "map"
    /\ r.params.arguments.location \notin {None, "", UnhashableLoc}
    /\ r.params.arguments.location \notin {"Bengaluru", "Mumbai", "Delhi", "Chennai"}

\* the text of the first content block, decoded: the value under key
JsonGet(text, key) == text[CHOOSE i \in 1..Len(text) : text[i][1] = key][2]
JsonHas(text, key) == \E i \in 1..Len(text) : text[i][1] = key

Mentions(message, phrase) == \E i \in 1..Len(message) : message[i] = phrase

\* a tool-level failure: a successful envelope whose result has isError = true
\* at the result level and whose message mentions "not available"
ToolFailureNotAvailable(e) ==
    /\ HasResult(e)
    /\ "isError" \in DOMAIN e.result
    /\ e.result.isError = TRUE
    /\ Len(e.result.content) >= 1
    /\ JsonHas(e.result.content[1].text, "error")
    /\ Mentions(JsonGet(e.result.content[1].text, "error"), "not available")

\* C1: every tools/call of getWeather with a location that is not a key of the
\* four-city table is answered, on both transports, by a successful envelope
\* (result, no error) whose result has isError = true at the result level and
\* whose message mentions "not available".
C1_UnknownLocationIsToolFailure ==
    /\ \A k \in 1..Len(stdin) :
          (IsToolsCall(stdin[k], "getWeather") /\ UnknownLocation(stdin[k]))
          => (Len(OutOf(k)) = 1 /\ ToolFailureNotAvailable(OutOf(k)[1]))
    /\ \A k \in 1..Len(http) :
          (IsToolsCall(http[k].body, "getWeather") /\ UnknownLocation(http[k].body))
          => (http[k].response.status = 200 /\ ToolFailureNotAvailable(http[k].response.body))

\* C2: a line that is not decodable JSON is answered by exactly one error
\* envelope with error.code = -32700 and id null, and the server keeps
\* serving: every JSON object line, wherever it stands among the malformed
\* lines, is read and answered, and after either kind of line the loop is
\* still running.
C2_ParseErrorIsNotFatal ==
    /\ \A k \in 1..Len(stdin) :
          stdin[k].kind = "malformed"
          => /\ Len(OutOf(k)) = 1
             /\ HasError(OutOf(k)[1])
             /\ OutOf(k)[1].error.code = -32700
             /\ OutOf(k)[1].id = None
    /\ \A k \in 1..Len(stdin) :
          stdin[k].kind = "object"
          => /\ Len(OutOf(k)) >= 1
             /\ HasResult(OutOf(k)[1]) \/ HasError(OutOf(k)[1])
             /\ OutOf(k)[1].id = stdin[k].id
    /\ (Len(stdin) >= 1 /\ stdin[Len(stdin)].kind \in {"malformed", "object"})
          => pc = "running"

\* a well-formed request served after a malformed line
C2_Witness ==
    /\ Len(stdin) = 2
    /\ stdin[1].kind = "malformed"
    /\ stdin[2].kind = "object"
    /\ stdin[2].method = "tools/list"
    /\ Len(stdout) = 2
    /\ stdout[1].error.code = -32700
    /\ HasResult(stdout[2])

\* C3: a request whose id is null or absent (a notification) gets no reply,
\* whatever its method.
C3_NotificationGetsNoReply ==
    \A k \in 1..Len(stdin) :
        (stdin[k].kind = "object" /\ stdin[k].id = None) => OutOf(k) = <<>>

\* C4: the stdio adapter writes exactly one line for every message it reads,
\* initialize included.
C4_OneLinePerMessage ==
    \A k \in 1..Len(stdin) :
        stdin[k].kind = "object" => Len(OutOf(k)) = 1

\* a tools/call during which the handler raises: params or arguments that are
\* not a mapping, or a location that cannot be a table key
FaultyToolsCall(r) ==
    /\ r.kind = "object"
    /\ r.method = "tools/call"
    /\ \/ r.params.pk \in {"null", "str"}
       \/ /\ r.params.pk = "map"
          /\ r.params.name \in {"getWeather", "orderFood"}
          /\ \/ r.params.arguments.ak \in {"null", "str"}
             \/ r.params.arguments.location = UnhashableLoc

ToolFailure(e) ==
    /\ HasResult(e)
    /\ "isError" \in DOMAIN e.result
    /\ e.result.isError = TRUE

\* C5: a fault raised while a tools/call is served is reported as a
\* successful envelope whose result has isError = true, never in the
\* JSON-RPC error field and never as an unhandled exception.
C5_FaultIsToolFailure ==
    /\ \A k \in 1..Len(stdin) :
          FaultyToolsCall(stdin[k])
          => (Len(OutOf(k)) = 1 /\ ToolFailure(OutOf(k)[1]) /\ (k = Len(stdin) => pc = "running"))
    /\ \A k \in 1..Len(http) :
          FaultyToolsCall(http[k].body)
          => (http[k].response.status = 200 /\ ToolFailure(http[k].response.body))

\* C6: every POST is answered with HTTP status 200 and a JSON-RPC envelope,
\* whatever the body.
C6_AlwaysStatus200 ==
    \A k \in 1..Len(http) :
        /\ http[k].response.status = 200
        /\ "jsonrpc" \in DOMAIN http[k].response.body
        /\ HasResult(http[k].response.body) \/ HasError(http[k].response.body)

\* the kind of an envelope: "result", or the error code
EnvelopeKind(e) == IF HasResult(e) THEN 0 ELSE e.error.code

MethodNotFound(e) ==
    /\ HasError(e)
    /\ e.error.code = -32601
    /\ e.error.message[1] = "Method not found: "

\* C7: for each of the seven methods both transports answer the same request
\* with the same kind of envelope (result or error, same code), and neither
\* answers method-not-found.
C7_SameMethodTable ==
    \A k \in 1..Len(stdin) :
        stdin[k].method \in RoutedMethods
        => /\ http[k].response.status = 200
           /\ EnvelopeKind(OutOf(k)[1]) = EnvelopeKind(http[k].response.body)
           /\ ~MethodNotFound(OutOf(k)[1])
           /\ ~MethodNotFound(http[k].response.body)

\* C8: the read loop terminates on an empty line and on the end of input,
\* without reading further and without a reply for the terminating input.
C8_EmptyLineOrEofTerminates ==
    \A k \in 1..Len(stdin) :
        stdin[k].kind \in {"blank", "eof"}
        => /\ k = Len(stdin)
           /\ pc = "stopped"
           /\ OutOf(k) = <<>>

\* C8 (amended): the read loop terminates when the input stream ends: nothing
\* is written for the end of input and no further line is read.  An empty
\* line does not end the loop: it is answered by one parse-error envelope
\* (code -32700, id null) and the loop goes on.
C8_OnlyEofTerminates ==
    \A k \in 1..Len(stdin) :
        /\ stdin[k].kind = "eof"
           => /\ k = Len(stdin)
              /\ pc = "stopped"
              /\ OutOf(k) = <<>>
        /\ stdin[k].kind = "blank"
           => /\ Len(OutOf(k)) = 1
              /\ HasError(OutOf(k)[1])
              /\ OutOf(k)[1].error.code = -32700
              /\ OutOf(k)[1].id = None
              /\ (k = Len(stdin) => pc = "running")
        /\ (pc = "stopped" => stdin[Len(stdin)].kind = "eof")

\* an empty line answered, then the end of input
C8_Witness ==
    /\ Len(stdin) = 2
    /\ stdin[1].kind = "blank"
    /\ stdin[2].kind = "eof"
    /\ pc = "stopped"
    /\ Len(stdout) = 1

\* C9: every tools/call of order_food whose weather is a string outside the
\* ten values of the enum has isError = true; no food is recommended for it.
C9_EnumViolationIsError ==
    (/\ call.tool = "order_food"
     /\ call.arguments.weather \notin WeatherEnum \cup {Missing, None, NotAStr})
    => /\ call.result.isError = TRUE
       /\ "structuredContent" \notin DOMAIN call.result

\* the field each tool requires
RequiredField == [get_weather |-> "location", order_food |-> "weather"]

HttpRoutedMethods == {"initialize", "tools/list", "tools/call"}

\* an error envelope with the given id and code, and no result
ErrorEnvelope(e, id, code) == HasError(e) /\ e.id = id /\ e.error.code = code

\* C11: a request whose method is not one the server routes (an unknown name
\* or no method at all) is answered, by the stdio server and by the HTTP
\* endpoint, with one envelope that carries the id of the request, an error
\* with code -32601 and no result.
C11_UnroutedMethodIsMethodNotFound ==
    /\ \A k \in 1..Len(stdin) :
          (stdin[k].kind = "object" /\ stdin[k].method \notin RoutedMethods)
          => /\ Len(OutOf(k)) = 1
             /\ ErrorEnvelope(OutOf(k)[1], stdin[k].id, -32601)
    /\ \A k \in 1..Len(http) :
          (http[k].body.kind = "object" /\ http[k].body.method \notin HttpRoutedMethods)
          => /\ http[k].response.status = 200
             /\ ErrorEnvelope(http[k].response.body, http[k].body.id, -32601)

\* "foo/bar" with an id, then a request without method, sent to both servers
C11_Witness ==
    /\ Len(stdin) = 2 /\ Len(http) = 2
    /\ stdin[1].kind = "object" /\ stdin[1].method = "foo/bar" /\ stdin[1].id = "req-1"
    /\ stdin[2].kind = "object" /\ stdin[2].method = None /\ stdin[2].id = "req-2"
    /\ ErrorEnvelope(OutOf(1)[1], "req-1", -32601)
    /\ ErrorEnvelope(OutOf(2)[1], "req-2", -32601)
    /\ ErrorEnvelope(http[1].response.body, "req-1", -32601)
    /\ ErrorEnvelope(http[2].response.body, "req-2", -32601)

\* the names of the tools the server dispatches
DispatchedTools == {"getCurrentLocation", "getWeather", "orderFood"}

\* a tools/call whose params are an object and whose name is no dispatched tool
UnknownToolCall(r) ==
    /\ r.kind = "object"
    /\ r.method = "tools/call"
    /\ is_mapping(r.params.pk)
    /\ r.params.name \notin DispatchedTools

\* C12: a tools/call whose name is not a dispatched tool is answered, on both
\* transports, with a protocol error: an envelope carrying the id of the
\* request and error.code = -32601, without a result, hence never a result
\* with isError = true.
C12_UnknownToolIsProtocolError ==
    /\ \A k \in 1..Len(stdin) :
          UnknownToolCall(stdin[k])
          => /\ Len(OutOf(k)) = 1
             /\ ErrorEnvelope(OutOf(k)[1], stdin[k].id, -32601)
    /\ \A k \in 1..Len(http) :
          UnknownToolCall(http[k].body)
          => /\ http[k].response.status = 200
             /\ ErrorEnvelope(http[k].response.body, http[k].body.id, -32601)

\* a call of "getweather" (wrong case), then a call without a name
C12_Witness ==
    /\ Len(stdin) = 2 /\ Len(http) = 2
    /\ UnknownToolCall(stdin[1]) /\ stdin[1].params.name = "getweather" /\ stdin[1].id = "req-1"
    /\ UnknownToolCall(stdin[2]) /\ stdin[2].params.name = None
    /\ ErrorEnvelope(OutOf(1)[1], "req-1", -32601)
    /\ ErrorEnvelope(http[1].response.body, "req-1", -32601)
    /\ Mentions(http[1].response.body.error.message, "getweather")

\* exactly one of the fields result and error
ExactlyOneOfResultAndError(e) == ("result" \in DOMAIN e) # ("error" \in DOMAIN e)

\* C13: every envelope a server writes in reply to a message (every stdout
\* line other than the notifications/initialized notification, every body of
\* a 200 response) has exactly one of the fields result and error.
C13_ResultXorError ==
    /\ \A i \in 1..Len(stdout) :
          stdout[i] # initialized_notification => ExactlyOneOfResultAndError(stdout[i])
    /\ \A k \in 1..Len(http) :
          http[k].response.status = 200 => ExactlyOneOfResultAndError(http[k].response.body)

\* a success, a parse error and an internal error have been written
C13_Witness ==
    /\ Len(stdin) = 3
    /\ \E i \in 1..Len(stdout) : HasResult(stdout[i])
    /\ \E i \in 1..Len(stdout) : HasError(stdout[i]) /\ stdout[i].error.code = -32700
    /\ \E i \in 1..Len(stdout) : HasError(stdout[i]) /\ stdout[i].error.code = -32603
    /\ \E k \in 1..Len(http) : HasError(http[k].response.body)

\* C14: no line other than the end of input stops the stdio server: for every
\* such line (JSON that is not an object and objects whose params or
\* arguments are not mappings included) the server writes an error or result
\* envelope and is ready to read the next line; the loop ends only at the end
\* of input.
C14_NoLineStopsTheServer ==
    /\ \A k \in 1..Len(stdin) :
          stdin[k].kind # "eof"
          => /\ Len(OutOf(k)) >= 1
             /\ HasResult(OutOf(k)[1]) \/ HasError(OutOf(k)[1])
             /\ (k = Len(stdin) => pc = "running")
    /\ pc # "running" => (pc = "stopped" /\ stdin[Len(stdin)].kind = "eof")

\* a getWeather call whose location is a key of the four-city table
KnownLocationCall(r) ==
    /\ IsToolsCall(r, "getWeather")
    /\ r.params.arguments.ak = "map"
    /\ r.params.arguments.location \in {"Bengaluru", "Mumbai", "Delhi", "Chennai"}

\* the keys of the JSON object that the text encodes are pairwise distinct
IsJsonObject(text) ==
    \A i, j \in 1..Len(text) : text[i][1] = text[j][1] => i = j

\* a successful result whose single text block encodes the weather of location
WeatherPayload(e, location) ==
    /\ HasResult(e)
    /\ "isError" \in DOMAIN e.result
    /\ e.result.isError = FALSE
    /\ Len(e.result.content) = 1
    /\ e.result.content[1].type = "text"
    /\ LET text == e.result.content[1].text IN
         /\ IsJsonObject(text)
         /\ \A key \in {"location", "temperature", "condition", "humidity", "windSpeed"} : JsonHas(text, key)
         /\ JsonGet(text, "location") = location
         /\ JsonGet(text, "temperature") = weather_data[location].temperature
         /\ JsonGet(text, "condition") = weather_data[location].condition
         /\ JsonGet(text, "humidity") = weather_data[location].humidity
         /\ JsonGet(text, "windSpeed") = weather_data[location].windSpeed

\* C15: a getWeather call whose location is a key of the four-city table
\* returns, on both transports, a result with isError = false whose content
\* is one block of type "text" that encodes a JSON object with the requested
\* location and the temperature, condition, humidity and windSpeed of that
\* city's table entry.
C15_KnownLocationReturnsTableEntry ==
    /\ \A k \in 1..Len(stdin) :
          KnownLocationCall(stdin[k])
          => /\ Len(OutOf(k)) = 1
             /\ OutOf(k)[1].id = stdin[k].id
             /\ WeatherPayload(OutOf(k)[1], stdin[k].params.arguments.location)
    /\ \A k \in 1..Len(http) :
          KnownLocationCall(http[k].body)
          => /\ http[k].response.status = 200
             /\ http[k].response.body.id = http[k].body.id
             /\ WeatherPayload(http[k].response.body, http[k].body.params.arguments.location)

\* Delhi, then Chennai, asked of both servers
C15_Witness ==
    /\ Len(stdin) = 2 /\ Len(http) = 2
    /\ KnownLocationCall(stdin[1]) /\ stdin[1].params.arguments.location = "Delhi"
    /\ KnownLocationCall(stdin[2]) /\ stdin[2].params.arguments.location = "Chennai"
    /\ JsonGet(OutOf(1)[1].result.content[1].text, "temperature") = 35
    /\ JsonGet(OutOf(1)[1].result.content[1].text, "condition") = Hot
    /\ JsonGet(http[2].response.body.result.content[1].text, "windSpeed") = 18
    /\ JsonGet(http[2].response.body.result.content[1].text, "humidity") = 80

\* the names a server lists, in order
ListedNames(entries) == [i \in 1..Len(entries) |-> entries[i].name]
NamesOf(entries) == {entries[i].name : i \in 1..Len(entries)}

\* the payload of tools/list: one triple per dispatched tool, distinct names,
\* in registration order
IsToolListing(e) ==
    /\ HasResult(e)
    /\ DOMAIN e.result = {"tools"}
    /\ ListedNames(e.result.tools) = <<"getCurrentLocation", "getWeather", "orderFood">>
    /\ NamesOf(e.result.tools) = DispatchedTools
    /\ \A i, j \in 1..Len(e.result.tools) : e.result.tools[i].name = e.result.tools[j].name => i = j
    /\ \A i \in 1..Len(e.result.tools) : DOMAIN e.result.tools[i] = {"name", "description", "inputSchema"}

IsToolsList(r) == r.kind = "object" /\ r.method = "tools/list"

\* a tools/call whose name can be read (params is an object or absent)
NamedToolsCall(r) == r.kind = "object" /\ r.method = "tools/call" /\ is_mapping(r.params.pk)

\* C16: tools/list returns exactly the tools that tools/call dispatches, one
\* {name, description, inputSchema} entry per tool, names pairwise distinct,
\* in the order getCurrentLocation, getWeather, orderFood; and tools/call
\* answers a name with the unknown-tool error (-32601) if and only if the
\* name is not listed.
C16_ListedIffDispatched ==
    /\ \A k \in 1..Len(stdin) :
          /\ IsToolsList(stdin[k]) => (Len(OutOf(k)) = 1 /\ IsToolListing(OutOf(k)[1]))
          /\ NamedToolsCall(stdin[k])
             => /\ Len(OutOf(k)) = 1
                /\ ErrorEnvelope(OutOf(k)[1], stdin[k].id, -32601)
                   <=> stdin[k].params.name \notin NamesOf(handle_tools_list(stdin[k]).tools)
    /\ \A k \in 1..Len(http) :
          /\ IsToolsList(http[k].body) => IsToolListing(http[k].response.body)
          /\ NamedToolsCall(http[k].body)
             => (ErrorEnvelope(http[k].response.body, http[k].body.id, -32601)
                 <=> http[k].body.params.name \notin NamesOf(http_tool_entries))

\* tools/list, then a call of a listed tool that succeeds
C16_Witness ==
    /\ Len(stdin) = 2 /\ Len(http) = 2
    /\ IsToolsList(stdin[1])
    /\ IsToolListing(OutOf(1)[1]) /\ IsToolListing(http[1].response.body)
    /\ NamedToolsCall(stdin[2]) /\ stdin[2].params.name = "orderFood"
    /\ HasResult(OutOf(2)[1]) /\ HasResult(http[2].response.body)

\* C17: two calls of tools/list return identical result payloads, whatever
\* was served between them (initialize, tools/call of any tool, malformed
\* lines, unknown methods), on the stdio server and on the HTTP endpoint.
C17_ToolsListIsIdempotent ==
    /\ \A j, k \in 1..Len(stdin) :
          (IsToolsList(stdin[j]) /\ IsToolsList(stdin[k]))
          => /\ HasResult(OutOf(j)[1]) /\ HasResult(OutOf(k)[1])
             /\ OutOf(j)[1].result = OutOf(k)[1].result
    /\ \A j, k \in 1..Len(http) :
          (IsToolsList(http[j].body) /\ IsToolsList(http[k].body))
          => /\ HasResult(http[j].response.body) /\ HasResult(http[k].response.body)
             /\ http[j].response.body.result = http[k].response.body.result

\* tools/list, a tools/call in between, tools/list again
C17_Witness ==
    /\ Len(stdin) = 3 /\ Len(http) = 3
    /\ IsToolsList(stdin[1]) /\ IsToolsList(stdin[3])
    /\ stdin[2].kind = "object" /\ stdin[2].method = "tools/call"
    /\ OutOf(1)[1].result = OutOf(3)[1].result
    /\ Len(OutOf(3)[1].result.tools) = 3
    /\ http[1].response.body.result = http[3].response.body.result

\* has initialize been served before the k-th message
InitializedBefore(log, k) ==
    \E i \in 1..(k - 1) : log[i].kind = "object" /\ log[i].method = "initialize"

\* the reply of the HTTP endpoint to the k-th body
HttpReply(k) == http[k].response

\* C18: a request served before any initialize gets the reply that the same
\* request gets after initialize has been served; nothing is rejected or
\* altered for want of initialize.
C18_NoInitializeGate ==
    /\ \A j, k \in 1..Len(stdin) :
          (/\ stdin[j].kind = "object" /\ stdin[j] = stdin[k]
           /\ ~InitializedBefore(stdin, j) /\ InitializedBefore(stdin, k))
          => OutOf(j) = OutOf(k)
    /\ \A j, k \in 1..Len(http) :
          (/\ http[j].body.kind = "object" /\ http[j].body = http[k].body
           /\ ~InitializedBefore([i \in 1..Len(http) |-> http[i].body], j)
           /\ InitializedBefore([i \in 1..Len(http) |-> http[i].body], k))
          => HttpReply(j) = HttpReply(k)
    /\ \A k \in 1..Len(stdin) :
          (stdin[k].kind = "object" /\ stdin[k].method \in RoutedMethods
           /\ is_mapping(stdin[k].params.pk) /\ is_mapping(stdin[k].params.arguments.ak)
           /\ ~InitializedBefore(stdin, k))
          => (HasResult(OutOf(k)[1]) \/ ErrorEnvelope(OutOf(k)[1], stdin[k].id, -32601))

\* a tools/call served first, initialize second, the same tools/call third
C18_Witness ==
    /\ Len(stdin) = 3 /\ Len(http) = 3
    /\ stdin[1].kind = "object" /\ stdin[1].method = "tools/call"
    /\ stdin[1].params.name = "orderFood"
    /\ stdin[2].kind = "object" /\ stdin[2].method = "initialize"
    /\ stdin[3] = stdin[1]
    /\ HasResult(OutOf(1)[1])
    /\ OutOf(1) = OutOf(3)
    /\ HttpReply(1) = HttpReply(3)

\* what the listing methods return: the prompt names and the resource URIs
ListedPrompts == {handle_prompts_list(Unbound).prompts[i].name :
                      i \in 1..Len(handle_prompts_list(Unbound).prompts)}
ListedResources == {handle_resources_list(Unbound).resources[i].uri :
                        i \in 1..Len(handle_resources_list(Unbound).resources)}

\* the HTTP endpoint answers the listing methods with an error: it lists nothing
HttpLists(method) == HasResult(mcp_endpoint(Request(None, method, NoParams)).body)

\* a prompts/get (resources/read) whose name (uri) can be read and whose
\* arguments are an object or absent
IsPromptsGet(r) ==
    /\ r.kind = "object" /\ r.method = "prompts/get"
    /\ is_mapping(r.params.pk) /\ is_mapping(r.params.arguments.ak)
IsResourcesRead(r) ==
    /\ r.kind = "object" /\ r.method = "resources/read"
    /\ is_mapping(r.params.pk)

\* the reply is a result if the key is listed and error -32601 otherwise
SucceedsIffListed(e, id, key, listed) ==
    IF key \in listed THEN HasResult(e) /\ e.id = id
    ELSE ErrorEnvelope(e, id, -32601)

\* C19: prompts/get succeeds for exactly the names prompts/list returns and
\* resources/read for exactly the URIs resources/list returns, by exact,
\* case-sensitive comparison of the whole string; any other name or URI is
\* answered with an error envelope of code -32601.
C19_GetSucceedsIffListed ==
    /\ \A k \in 1..Len(stdin) :
          /\ IsPromptsGet(stdin[k])
             => /\ Len(OutOf(k)) = 1
                /\ SucceedsIffListed(OutOf(k)[1], stdin[k].id, stdin[k].params.name, ListedPrompts)
          /\ IsResourcesRead(stdin[k])
             => /\ Len(OutOf(k)) = 1
                /\ SucceedsIffListed(OutOf(k)[1], stdin[k].id, stdin[k].params.uri, ListedResources)
    /\ \A k \in 1..Len(http) :
          /\ IsPromptsGet(http[k].body)
             => SucceedsIffListed(http[k].response.body, http[k].body.id, http[k].body.params.name,
                                  IF HttpLists("prompts/list") THEN ListedPrompts ELSE {})
          /\ IsResourcesRead(http[k].body)
             => SucceedsIffListed(http[k].response.body, http[k].body.id, http[k].body.params.uri,
                                  IF HttpLists("resources/list") THEN ListedResources ELSE {})

\* the listed URI is read, the same URI with a trailing slash is refused
C19_Witness ==
    /\ Len(stdin) = 2
    /\ IsResourcesRead(stdin[1]) /\ stdin[1].params.uri = "example://greeting"
    /\ HasResult(OutOf(1)[1])
    /\ OutOf(1)[1].result.contents[1].uri = "example://greeting"
    /\ IsResourcesRead(stdin[2]) /\ stdin[2].params.uri = "example://greeting/"
    /\ ErrorEnvelope(OutOf(2)[1], stdin[2].id, -32601)

\* C20: the reply to a message is determined by that message alone: each
\* message gets the lines (the response) it gets in a run in which it is the
\* first message served, whatever was served before it.
C20_ReplyDependsOnRequestAlone ==
    /\ \A k \in 1..Len(stdin) : OutOf(k) = main_iteration(Unbound, stdin[k]).out
    /\ \A k \in 1..Len(http) : HttpReply(k) = mcp_endpoint(http[k].body)

\* ------------------------------------------------------------- C21 .. C30
\* the response a call gets when it is the only one the server serves
ServedAlone(body) ==
    IF IsSideEffectCall(body) THEN test_e500_side_effect(body.data) ELSE mcp_endpoint(body)

\* C21: under every interleaving of concurrently served HTTP tools/call
\* requests no handler modifies state another request can observe (the
\* files on disk; the tool registry and the data tables are constants), and
\* each request gets the reply it would get if it were served alone.
C21_HandlersShareNoMutableState ==
    /\ disk = NoFile
    /\ \A c \in Connections :
          inflight[c].phase = "done" => inflight[c].response = ServedAlone(inflight[c].body)

\* a well-formed request that carries an id
RequestWithId(line) == line.kind = "object" /\ line.id # None

\* a request with an id is in the pipe or being handled
AwaitsReply ==
    \/ RequestWithId(current)
    \/ \E i \in 1..Len(pipe) : RequestWithId(pipe[i])

\* C22: the stdio server handles one request at a time: a line is read only
\* when every earlier line has its reply on stdout, the replies stand in the
\* order of the requests, each request with an id is answered under that id,
\* and every request with an id that the client has written is eventually
\* answered.
C22_OneAtATimeAndEveryRequestAnswered ==
    /\ [](/\ Len(mark) = Len(stdin)
          /\ \A k \in 1..Len(stdin) :
                RequestWithId(stdin[k])
                => /\ Len(OutOf(k)) >= 1
                   /\ OutOf(k)[1].id = stdin[k].id)
    /\ (AwaitsReply ~> ~AwaitsReply)

\* a getWeather or orderFood call whose arguments are an object
LocatedCall(r) ==
    /\ r.kind = "object" /\ r.method = "tools/call" /\ r.params.pk = "map"
    /\ r.params.name \in {"getWeather", "orderFood"}
    /\ r.params.arguments.ak = "map"

IsCurrentLocationCall(r) ==
    r.kind = "object" /\ r.method = "tools/call" /\ r.params.pk = "map"
    /\ r.params.name = "getCurrentLocation"

\* the location that a getCurrentLocation reply reports
ReportedLocation(e) == JsonGet(e.result.content[1].text, "location")

\* the call r names no location and the call q is the same call with the
\* location that the reply e of getCurrentLocation reports
DefaultAndExplicit(r, q, e) ==
    /\ LocatedCall(r) /\ LocatedCall(q)
    /\ r.params.name = q.params.name
    /\ r.params.arguments.location = None
    /\ HasResult(e)
    /\ q.params.arguments.location = ReportedLocation(e)

\* C23: a getWeather or orderFood call without a location returns the
\* payload of the same call with the location that getCurrentLocation
\* reports, on both transports.
C23_DefaultIsCurrentLocation ==
    /\ \A i, j, k \in 1..Len(stdin) :
          (IsCurrentLocationCall(stdin[i]) /\ DefaultAndExplicit(stdin[j], stdin[k], OutOf(i)[1]))
          => OutOf(j)[1].result = OutOf(k)[1].result
    /\ \A i, j, k \in 1..Len(http) :
          (/\ IsCurrentLocationCall(http[i].body)
           /\ DefaultAndExplicit(http[j].body, http[k].body, http[i].response.body))
          => http[j].response.body.result = http[k].response.body.result

\* getCurrentLocation, orderFood without location, orderFood for Bengaluru
C23_Witness ==
    /\ Len(stdin) = 3 /\ Len(http) = 3
    /\ IsCurrentLocationCall(stdin[1])
    /\ DefaultAndExplicit(stdin[2], stdin[3], OutOf(1)[1])
    /\ stdin[2].params.name = "orderFood"
    /\ stdin[3].params.arguments.location = "Bengaluru"
    /\ JsonGet(OutOf(2)[1].result.content[1].text, "location") = "Bengaluru"
    /\ OutOf(2)[1].result = OutOf(3)[1].result
    /\ http[2].response.body.result = http[3].response.body.result

\* the foods of one list of the food table
FoodsOf(condition) == {WEATHER_FOOD_MAP[condition][i] : i \in 1..Len(WEATHER_FOOD_MAP[condition])}

\* C24: every get_weather output has equal weather and condition fields, and
\* that value is a member of order_food's enum and a key of the food table;
\* an order_food call fed with it succeeds and returns a food, with its
\* comment, of that condition's own list.
C24_WeatherOutputFeedsOrderFood ==
    /\ (call.tool = "get_weather" /\ ~call.result.isError)
       => /\ call.result.structuredContent.weather = call.result.structuredContent.condition
          /\ call.result.structuredContent.weather \in WeatherEnum
          /\ call.result.structuredContent.weather \in DOMAIN WEATHER_FOOD_MAP
    /\ "fed_by" \in DOMAIN call
       => /\ call.arguments.weather = call.fed_by.condition
          /\ call.result.isError = FALSE
          /\ call.result.structuredContent.food \in FoodsOf(call.fed_by.condition)
          /\ call.result.structuredContent.comment
                = funny(call.result.structuredContent.food, call.fed_by.condition)

\* a Misty get_weather output fed into order_food gives a food of the Misty list
C24_Witness ==
    /\ "fed_by" \in DOMAIN call
    /\ call.fed_by.weather = "Misty"
    /\ call.result.isError = FALSE
    /\ call.result.structuredContent.food = "Hot Toddy"

\* ------------------------------------------- parth/tools/weather/utils.py
\* A str that the code inspects is the sequence of its characters.
IsSpace(c) == c \in {" ", "\t", "\n"}

RECURSIVE lstrip(_)
lstrip(s) == IF s # <<>> /\ IsSpace(Head(s)) THEN lstrip(Tail(s)) ELSE s

RECURSIVE rstrip(_)
rstrip(s) == IF s # <<>> /\ IsSpace(s[Len(s)]) THEN rstrip(SubSeq(s, 1, Len(s) - 1)) ELSE s

\* str.strip()
strip(s) == rstrip(lstrip(s))

\* str.split(sep)
RECURSIVE split(_, _)
split(s, sep) ==
    IF \E i \in 1..Len(s) : s[i] = sep
    THEN LET i == CHOOSE i \in 1..Len(s) : s[i] = sep /\ \A j \in 1..(i - 1) : s[j] # sep
         IN <<SubSeq(s, 1, i - 1)>> \o split(SubSeq(s, i + 1, Len(s)), sep)
    ELSE <<s>>

\* A float is the fraction num/den in lowest decimal terms, or nan, or an infinity.
NaN == [kind |-> "nan", num |-> 0, den |-> 1]
Inf(sign) == [kind |-> "inf", num |-> sign, den |-> 1]

RECURSIVE Finite(_, _)
Finite(num, den) ==
    IF den > 1 /\ num % 10 = 0 THEN Finite(num \div 10, den \div 10)
    ELSE [kind |-> "finite", num |-> num, den |-> den]

Digits == {"0", "1", "2", "3", "4", "5", "6", "7", "8", "9"}

DigitValue(c) ==
    CASE c = "0" -> 0 [] c = "1" -> 1 [] c = "2" -> 2 [] c = "3" -> 3 [] c = "4" -> 4
      [] c = "5" -> 5 [] c = "6" -> 6 [] c = "7" -> 7 [] c = "8" -> 8 [] c = "9" -> 9

RECURSIVE DigitsValue(_)
DigitsValue(s) == IF s = <<>> THEN 0 ELSE 10 * DigitsValue(SubSeq(s, 1, Len(s) - 1)) + DigitValue(s[Len(s)])

RECURSIVE PowerOfTen(_)
PowerOfTen(n) == IF n = 0 THEN 1 ELSE 10 * PowerOfTen(n - 1)

RaiseValueError(msg) == [tag |-> "raise", type |-> "ValueError", msg |-> msg]
RaiseKeyError(msg) == [tag |-> "raise", type |-> "KeyError", msg |-> msg]
IsValueError(r) == r.tag = "raise" /\ r.type = "ValueError"

\* float(text) for decimal notation with an optional sign and an optional
\* fraction, and for nan and inf; exponents and digit separators do not occur
\* in the inputs below.
float(text) ==
    LET s == strip(text)
        signed == s # <<>> /\ Head(s) \in {"+", "-"}
        sign == IF signed /\ Head(s) = "-" THEN -1 ELSE 1
        body == IF signed THEN Tail(s) ELSE s
        name == lower(body)
        dots == {i \in 1..Len(body) : body[i] = "."}
        dot == IF dots = {} THEN Len(body) + 1 ELSE CHOOSE i \in dots : TRUE
        whole == SubSeq(body, 1, dot - 1)
        frac == SubSeq(body, dot + 1, Len(body))
    IN IF name = <<"n", "a", "n">> THEN Return(NaN)
       ELSE IF name = <<"i", "n", "f">> THEN Return(Inf(sign))
       ELSE IF /\ Cardinality(dots) <= 1
               /\ \A i \in 1..Len(body) : i \in dots \/ body[i] \in Digits
               /\ Len(whole) + Len(frac) >= 1
            THEN Return(Finite(sign * DigitsValue(whole \o frac), PowerOfTen(Len(frac))))
       ELSE RaiseValueError(<<"could not convert string to float: ", s>>)

\* lo <= x <= hi for integers lo, hi; every comparison with nan is False
Between(lo, x, hi) ==
    /\ x.kind = "finite"
    /\ lo * x.den <= x.num
    /\ x.num <= hi * x.den

\* What the geocoding service does with one request.
GeocoderOutcomes == {"found", "found unnamed", "no results", "request failed", "no latitude"}

\* geocode_location(location) when the service answers with outcome
geocode_location(location, outcome) ==
    CASE outcome = "found" -> Return(<<Finite(515, 10), Finite(-1, 10), "London">>)
      [] outcome = "found unnamed" -> Return(<<Finite(515, 10), Finite(-1, 10), location>>)
      [] outcome = "no results" -> RaiseValueError(<<"Location '", location, "' not found">>)
      [] outcome = "request failed" ->
            RaiseValueError(<<"Failed to geocode location '", location, "': ", "<RequestException>">>)
      [] outcome = "no latitude" -> RaiseKeyError("latitude")

\* parse_location accepting only coordinates strictly inside the ranges
parse_location_open_ranges(location, outcomes) ==
    LET first == geocode_location(location, outcomes[1])
        once == [output |-> first, geocoded |-> <<[location |-> location, output |-> first]>>]
        parts == split(location, ",")
        latitude == float(strip(parts[1]))
        longitude == float(strip(parts[2]))
    IN IF Len(parts) = 2 /\ latitude.tag = "return" /\ longitude.tag = "return"
          /\ latitude.value.kind = "finite" /\ longitude.value.kind = "finite"
          /\ -90 * latitude.value.den < latitude.value.num
          /\ latitude.value.num < 90 * latitude.value.den
          /\ -180 * longitude.value.den < longitude.value.num
          /\ longitude.value.num < 180 * longitude.value.den
       THEN [output |-> Return(<<latitude.value, longitude.value,
                                 <<latitude.value, ",", longitude.value>>>>),
             geocoded |-> <<>>]
       ELSE once

\* parse_location(location); outcomes[k] is what the geocoding service does
\* with the k-th request made. The result is the outcome of the function and
\* the calls of geocode_location it made, in order.
parse_location(location, outcomes) ==
    LET first == geocode_location(location, outcomes[1])
        second == geocode_location(location, outcomes[2])
        once == [output |-> first, geocoded |-> <<[location |-> location, output |-> first]>>]
        twice == [output |-> second,
                  geocoded |-> <<[location |-> location, output |-> first],
                                 [location |-> location, output |-> second]>>]
        parts == split(location, ",")
    IN IF \E i \in 1..Len(location) : location[i] = ","
       THEN IF Len(parts) = 2
            THEN LET lat_str == strip(parts[1])
                     lon_str == strip(parts[2])
                     latitude == float(lat_str)
                     longitude == float(lon_str)
                 IN IF latitude.tag = "raise" \/ longitude.tag = "raise"
                    THEN once                \* except ValueError
                    ELSE IF Between(-90, latitude.value, 90) /\ Between(-180, longitude.value, 180)
                    THEN [output |-> Return(<<latitude.value, longitude.value,
                                              <<latitude.value, ",", longitude.value>>>>),
                          geocoded |-> <<>>]
                    \* the call of line 109 is inside the try: its ValueError is
                    \* caught at line 110 and the geocoder is asked again
                    ELSE IF IsValueError(first) THEN twice
                    ELSE once
            ELSE once
       ELSE once

\* the parts the location strings below are made of
LocationParts ==
    { <<"9", "0">>, <<"-", "9", "0">>, <<"9", "0", ".", "5">>, <<"-", "9", "1">>,
      <<"1", "8", "0">>, <<"-", "1", "8", "0", ".", "0">>, <<"1", "8", "1">>,
      <<" ", "1", "3", ".", "4", "0", "5", " ">>, <<"n", "a", "n">>, <<"i", "n", "f">>,
      <<"L", "o", "n">>, <<" ", "U", "K">>, <<>>, <<".">> }

LocationStrings ==
    LocationParts
    \cup {a \o <<",">> \o b : a \in LocationParts, b \in LocationParts}
    \cup {a \o <<",">> \o a \o <<",">> \o b : a \in {<<"9", "0">>, <<"L", "o", "n">>}, b \in {<<"1", "8", "0">>, <<>>}}

\* The functions of this section keep no state: each behaviour applies one of
\* them once, to one input.
ParseLocation(location, outcomes) ==
    /\ app = NoApplication
    /\ app' = [fn |-> "parse_location", input |-> location] @@ parse_location(location, outcomes)
    /\ UNCHANGED <<pc, request, stdin, stdout, mark, http, call, ncalls, inflight, disk, pipe, current>>

parse_location_applied ==
    \E location \in LocationStrings : \E o1 \in GeocoderOutcomes : \E o2 \in GeocoderOutcomes :
        ParseLocation(location, <<o1, o2>>)

\* the positions of the commas of a string
Commas(s) == {i \in 1..Len(s) : s[i] = ","}
BeforeComma(s) == SubSeq(s, 1, (CHOOSE i \in Commas(s) : TRUE) - 1)
AfterComma(s) == SubSeq(s, (CHOOSE i \in Commas(s) : TRUE) + 1, Len(s))

\* exactly one comma, two numbers, latitude and longitude within their ranges
IsCoordinates(s) ==
    /\ Cardinality(Commas(s)) = 1
    /\ float(BeforeComma(s)).tag = "return"
    /\ float(AfterComma(s)).tag = "return"
    /\ Between(-90, float(BeforeComma(s)).value, 90)
    /\ Between(-180, float(AfterComma(s)).value, 180)

\* C25: parse_location returns the coordinates itself, asking the geocoder
\* nothing, exactly when the string has one comma, both parts are numbers and
\* both are within range; otherwise every geocoder call it makes is for the
\* whole string and its outcome is the outcome of the geocoder.
C25_ParseLocationDirectIffCoordinates ==
    app.fn = "parse_location" =>
        /\ (app.geocoded = <<>>) <=> IsCoordinates(app.input)
        /\ IsCoordinates(app.input) =>
              /\ app.output.tag = "return"
              /\ app.output.value[1] = float(BeforeComma(app.input)).value
              /\ app.output.value[2] = float(AfterComma(app.input)).value
        /\ ~IsCoordinates(app.input) =>
              /\ \A k \in 1..Len(app.geocoded) : app.geocoded[k].location = app.input
              /\ app.output = app.geocoded[Len(app.geocoded)].output

\* "90,-180.0" is returned as (90, -180) without a geocoder call
C25_Witness ==
    /\ app.fn = "parse_location"
    /\ app.input = <<"9", "0", ",", "-", "1", "8", "0", ".", "0">>
    /\ app.geocoded = <<>>
    /\ app.output.value[1] = Finite(90, 1)
    /\ app.output.value[2] = Finite(-180, 1)


\* ------------------------------- get_food_recommendation on its own inputs
Conditions ==
    { <<"R","a","i","n","y">>, <<"L","i","g","h","t"," ","R","A","I","N">>, PartlyCloudy,
      <<"C","L","O","U","D","Y">>, Sunny, <<"S","U","N","N","Y">>, <<"S","u","n","n","y"," ","r","a","i","n">>,
      <<"C","o","l","d">>, <<"C","o","l","d",",","c","l","o","u","d","y">>, Hot, Humid,
      <<"C","l","e","a","r">>, <<>> }

Temperatures == {-5, 19, 20, 21, 29, 30, 31, 45}

GetFoodRecommendation(condition, temperature) ==
    /\ app = NoApplication
    /\ app' = [ fn |-> "get_food_recommendation",
                input |-> [condition |-> condition, temperature |-> temperature],
                output |-> get_food_recommendation(condition, temperature) ]
    /\ UNCHANGED <<pc, request, stdin, stdout, mark, http, call, ncalls, inflight, disk, pipe, current>>

get_food_recommendation_applied ==
    \E condition \in Conditions : \E temperature \in Temperatures :
        GetFoodRecommendation(condition, temperature)

\* ------------------------- demo-mcp-py/tools/weather: the forecast tools
\* A JSON number is Number(n); JSON null and Python None are NoneObj.
Number(n) == [number |-> n]

WMO_WEATHER_CODES ==
    0 :> "Clear sky" @@
    1 :> "Mainly clear" @@
    2 :> "Partly cloudy" @@
    3 :> "Overcast" @@
    45 :> "Fog" @@
    48 :> "Depositing rime fog" @@
    51 :> "Light drizzle" @@
    53 :> "Moderate drizzle" @@
    55 :> "Dense drizzle" @@
    56 :> "Light freezing drizzle" @@
    57 :> "Dense freezing drizzle" @@
    61 :> "Slight rain" @@
    63 :> "Moderate rain" @@
    65 :> "Heavy rain" @@
    66 :> "Light freezing rain" @@
    67 :> "Heavy freezing rain" @@
    71 :> "Slight snow fall" @@
    73 :> "Moderate snow fall" @@
    75 :> "Heavy snow fall" @@
    77 :> "Snow grains" @@
    80 :> "Slight rain showers" @@
    81 :> "Moderate rain showers" @@
    82 :> "Violent rain showers" @@
    85 :> "Slight snow showers" @@
    86 :> "Heavy snow showers" @@
    95 :> "Thunderstorm" @@
    96 :> "Thunderstorm with slight hail" @@
    99 :> "Thunderstorm with heavy hail"

\* WMO_WEATHER_CODES.get(weather_code, "Unknown weather condition")
get_weather_description(weather_code) ==
    IF "number" \in DOMAIN weather_code /\ weather_code.number \in DOMAIN WMO_WEATHER_CODES
    THEN WMO_WEATHER_CODES[weather_code.number]
    ELSE "Unknown weather condition"

\* d.get(key, default) on a dict
Get(d, key, default) == IF key \in DOMAIN d THEN d[key] ELSE default

\* arr[i] if i < len(arr) else None, repeating the last item instead
item_or_none_repeats_last(arr, i) ==
    IF i <= Len(arr) THEN arr[i] ELSE IF arr # <<>> THEN arr[Len(arr)] ELSE NoneObj

\* arr[i] if i < len(arr) else None   (positions count from 1 here)
item_or_none(arr, i) == IF i <= Len(arr) THEN arr[i] ELSE NoneObj

\* field of a daily data point |-> key of its array in the upstream response
DailyKeys ==
    [ weather_code |-> "weather_code",
      temperature_max |-> "temperature_2m_max",
      temperature_min |-> "temperature_2m_min",
      apparent_temperature_max |-> "apparent_temperature_max",
      apparent_temperature_min |-> "apparent_temperature_min",
      sunrise |-> "sunrise",
      sunset |-> "sunset",
      precipitation_sum |-> "precipitation_sum",
      rain_sum |-> "rain_sum",
      showers_sum |-> "showers_sum",
      snowfall_sum |-> "snowfall_sum",
      precipitation_hours |-> "precipitation_hours",
      precipitation_probability_max |-> "precipitation_probability_max",
      wind_speed_max |-> "wind_speed_10m_max",
      wind_gusts_max |-> "wind_gusts_10m_max",
      wind_direction_dominant |-> "wind_direction_10m_dominant" ]

\* field of an hourly data point |-> key of its array in the upstream response
HourlyKeys ==
    [ temperature |-> "temperature_2m",
      apparent_temperature |-> "apparent_temperature",
      humidity |-> "relative_humidity_2m",
      weather_code |-> "weather_code",
      cloud_cover |-> "cloud_cover",
      wind_speed |-> "wind_speed_10m",
      wind_direction |-> "wind_direction_10m",
      precipitation |-> "precipitation",
      rain |-> "rain",
      showers |-> "showers",
      snowfall |-> "snowfall" ]

\* the location the forecast tools are called with below, through parse_location
ForecastLocation ==
    parse_location(<<"5", "2", ".", "5", "2", ",", "1", "3", ".", "4", "0", "5">>, <<"found", "found">>).output.value

\* get_daily_forecast(location, days) from the line after response.json():
\* data is the decoded body of a successful upstream response
get_daily_forecast(data) ==
    LET daily == Get(data, "daily", <<>>)
        times == Get(daily, "time", <<>>)
        weather_codes == Get(daily, "weather_code", <<>>)
        daily_data ==
            [ i \in 1..Len(times) |->
                LET weather_code == IF i <= Len(weather_codes) THEN weather_codes[i] ELSE Number(0)
                IN [ f \in {"date", "weather_description"} \cup DOMAIN DailyKeys |->
                       CASE f = "date" -> times[i]
                         [] f = "weather_description" -> get_weather_description(weather_code)
                         [] OTHER -> item_or_none(Get(daily, DailyKeys[f], <<>>), i) ] ]
    IN Return([ location |-> ForecastLocation[3],
                latitude |-> ForecastLocation[1],
                longitude |-> ForecastLocation[2],
                timezone |-> Get(data, "timezone", ""),
                forecast_start |-> IF times # <<>> THEN times[1] ELSE "",
                forecast_end |-> IF times # <<>> THEN times[Len(times)] ELSE "",
                days |-> daily_data ])

\* get_hourly_forecast(location, days) from the line after response.json()
get_hourly_forecast(data) ==
    LET hourly == Get(data, "hourly", <<>>)
        times == Get(hourly, "time", <<>>)
        weather_code_arr == Get(hourly, "weather_code", <<>>)
        hourly_data ==
            [ i \in 1..Len(times) |->
                LET weather_code == IF i <= Len(weather_code_arr) THEN weather_code_arr[i] ELSE Number(0)
                IN [ f \in {"time", "weather_description"} \cup DOMAIN HourlyKeys |->
                       CASE f = "time" -> times[i]
                         [] f = "weather_description" -> get_weather_description(weather_code)
                         [] OTHER -> item_or_none(Get(hourly, HourlyKeys[f], <<>>), i) ] ]
    IN Return([ location |-> ForecastLocation[3],
                latitude |-> ForecastLocation[1],
                longitude |-> ForecastLocation[2],
                timezone |-> Get(data, "timezone", ""),
                forecast_start |-> IF times # <<>> THEN times[1] ELSE "",
                forecast_end |-> IF times # <<>> THEN times[Len(times)] ELSE "",
                hours |-> hourly_data ])

\* the arrays of the upstream responses below
ArraysOf(values) == UNION {[1..n -> values] : n \in 0..MaxTimes}
Timestamps == <<"2026-11-01", "2026-11-02", "2026-11-03", "2026-11-04", "2026-11-05">>
TimeArrays == {SubSeq(Timestamps, 1, n) : n \in 0..MaxTimes}
CodeArrays == ArraysOf({Number(0), Number(61), Number(100), NoneObj})
ValueArrays == ArraysOf({Number(21), NoneObj})

\* An upstream body: the time array, the weather_code array, the array of
\* first (a value key), and under every other key an array as long as the time
\* array; present are the keys, besides "time", that the body has at all.
UpstreamSeries(keys, first, times, codes, values, present) ==
    [ k \in {"time"} \cup {keys[f] : f \in {f \in DOMAIN keys :
                 \/ f = "weather_code" /\ "weather_code" \in present
                 \/ f = first /\ "first" \in present
                 \/ f \notin {"weather_code", first} /\ "others" \in present}} |->
        CASE k = "time" -> times
          [] k = "weather_code" -> codes
          [] k = keys[first] -> values
          [] OTHER -> [i \in 1..Len(times) |-> Number(1)] ]

UpstreamBodies(section, keys, first) ==
    { ("timezone" :> "Europe/Berlin") }
    \cup { (section :> UpstreamSeries(keys, first, times, codes, values, present))
              @@ ("timezone" :> "Europe/Berlin") :
           times \in TimeArrays, codes \in CodeArrays, values \in ValueArrays,
           present \in SUBSET {"weather_code", "first", "others"} }

GetDailyForecast(data) ==
    /\ app = NoApplication
    /\ app' = [fn |-> "get_daily_forecast", input |-> data, output |-> get_daily_forecast(data)]
    /\ UNCHANGED <<pc, request, stdin, stdout, mark, http, call, ncalls, inflight, disk, pipe, current>>

GetHourlyForecast(data) ==
    /\ app = NoApplication
    /\ app' = [fn |-> "get_hourly_forecast", input |-> data, output |-> get_hourly_forecast(data)]
    /\ UNCHANGED <<pc, request, stdin, stdout, mark, http, call, ncalls, inflight, disk, pipe, current>>

get_daily_forecast_applied ==
    \E data \in UpstreamBodies("daily", DailyKeys, "temperature_max") : GetDailyForecast(data)

get_hourly_forecast_applied ==
    \E data \in UpstreamBodies("hourly", HourlyKeys, "temperature") : GetHourlyForecast(data)

NextLibrary ==
    \/ parse_location_applied
    \/ get_food_recommendation_applied
    \/ get_daily_forecast_applied
    \/ get_hourly_forecast_applied

SpecLibrary == Init /\ [][NextLibrary]_vars

\* an orderFood call whose location argument is a string or is left out
OrderFoodCall(r) ==
    /\ IsToolsCall(r, "orderFood")
    /\ r.params.arguments.ak = "map"
    /\ r.params.arguments.location # UnhashableLoc

\* the location the call is about
EffectiveLocation(r) ==
    IF falsy(r.params.arguments.location) THEN "Bengaluru" ELSE r.params.arguments.location

\* getWeather succeeds for exactly the locations of the table
WeatherSucceeds(location) == location \in {"Bengaluru", "Mumbai", "Delhi", "Chennai"}

OrderPayload(e, location) ==
    /\ HasResult(e)
    /\ "isError" \in DOMAIN e.result
    /\ e.result.isError = FALSE
    /\ Len(e.result.content) = 1
    /\ LET text == e.result.content[1].text IN
         /\ \A key \in {"location", "weather", "order", "status"} : JsonHas(text, key)
         /\ JsonGet(text, "location") = location
         /\ JsonGet(JsonGet(text, "weather"), "temperature") = weather_data[location].temperature
         /\ JsonGet(JsonGet(text, "weather"), "condition") = weather_data[location].condition
         /\ JsonGet(text, "order") = get_food_recommendation(weather_data[location].condition,
                                                             weather_data[location].temperature)
         /\ JsonGet(text, "status") = "Ordered"

OrderFailure(e) ==
    /\ ToolFailure(e)
    /\ Len(e.result.content) >= 1
    /\ JsonHas(e.result.content[1].text, "error")
    /\ Mentions(JsonGet(e.result.content[1].text, "error"), "Cannot order food: ")
    /\ Mentions(JsonGet(e.result.content[1].text, "error"), "not available")

OrderFoodFollowsWeather(r, e) ==
    OrderFoodCall(r) =>
        IF WeatherSucceeds(EffectiveLocation(r))
        THEN OrderPayload(e, EffectiveLocation(r))
        ELSE OrderFailure(e)

\* C26: on both transports orderFood succeeds exactly for the locations for
\* which getWeather succeeds; its success payload carries the temperature and
\* condition of the table entry, the dish get_food_recommendation gives for
\* them and the status "Ordered"; for any other location it reports a
\* tool-level failure saying that food cannot be ordered because weather data
\* is not available.
C26_OrderFoodFollowsWeather ==
    /\ \A k \in 1..Len(stdin) :
          OrderFoodCall(stdin[k]) => (Len(OutOf(k)) = 1 /\ OrderFoodFollowsWeather(stdin[k], OutOf(k)[1]))
    /\ \A k \in 1..Len(http) :
          OrderFoodCall(http[k].body)
          => (http[k].response.status = 200 /\ OrderFoodFollowsWeather(http[k].body, http[k].response.body))

\* the condition mentions the word, in any case
Says(condition, word) == contains(word, lower(condition))

\* the rules in their order: when each applies, and its dish
FoodRules(condition, temperature) ==
    << [applies |-> Says(condition, <<"r","a","i","n">>) \/ Says(condition, <<"c","l","o","u","d","y">>),
        dish |-> MasalaDosa],
       [applies |-> Says(condition, <<"s","u","n","n","y">>) \/ temperature > 30, dish |-> CoolRaita],
       [applies |-> Says(condition, <<"c","o","l","d">>) \/ temperature < 20, dish |-> HotBiryani],
       [applies |-> TRUE, dish |-> ButterChicken] >>

FirstApplicable(rules) == CHOOSE i \in 1..Len(rules) : rules[i].applies /\ \A j \in 1..(i - 1) : ~rules[j].applies

NeutralCondition(condition) ==
    \A word \in {<<"r","a","i","n">>, <<"c","l","o","u","d","y">>, <<"s","u","n","n","y">>, <<"c","o","l","d">>} :
        ~Says(condition, word)

\* C27: get_food_recommendation returns the dish of the first rule that
\* applies, in the order rain/cloudy, sunny or above 30, cold or below 20,
\* balanced meal; so a rainy or cloudy condition gives the dosa at any
\* temperature, and a neutral condition at exactly 30 or 20 degrees gives the
\* balanced meal.
C27_FirstMatchingRuleWins ==
    app.fn = "get_food_recommendation" =>
        LET condition == app.input.condition
            temperature == app.input.temperature
            rules == FoodRules(condition, temperature)
        IN /\ app.output = rules[FirstApplicable(rules)].dish
           /\ (Says(condition, <<"r","a","i","n">>) \/ Says(condition, <<"c","l","o","u","d","y">>))
              => app.output = MasalaDosa
           /\ (NeutralCondition(condition) /\ temperature \in {20, 30}) => app.output = ButterChicken

\* Humid at 30 degrees gets the balanced meal
C27_Witness ==
    /\ app.fn = "get_food_recommendation"
    /\ app.input = [condition |-> Humid, temperature |-> 30]
    /\ app.output = ButterChicken

\* a forecast has been computed: its section of the upstream body, the points
\* returned, and the field of a point that dates it
IsForecast == app.fn \in {"get_daily_forecast", "get_hourly_forecast"}
ForecastSection == Get(app.input, IF app.fn = "get_daily_forecast" THEN "daily" ELSE "hourly", <<>>)
ForecastTimes == Get(ForecastSection, "time", <<>>)
ForecastPoints == IF app.fn = "get_daily_forecast" THEN app.output.value.days ELSE app.output.value.hours
ForecastStamp == IF app.fn = "get_daily_forecast" THEN "date" ELSE "time"
ForecastKeys == IF app.fn = "get_daily_forecast" THEN DailyKeys ELSE HourlyKeys

\* C28: the forecast tools return one data point per upstream timestamp, in
\* order, the i-th dated by the i-th timestamp; a position that a value array
\* does not reach is None in the point, and no error is raised; forecast_start
\* and forecast_end are the first and the last timestamp, or "" without any.
C28_OnePointPerTimestamp ==
    IsForecast =>
        /\ app.output.tag = "return"
        /\ Len(ForecastPoints) = Len(ForecastTimes)
        /\ \A i \in 1..Len(ForecastTimes) :
              /\ ForecastPoints[i][ForecastStamp] = ForecastTimes[i]
              /\ \A f \in DOMAIN ForecastKeys :
                    LET arr == Get(ForecastSection, ForecastKeys[f], <<>>)
                    IN ForecastPoints[i][f] = IF i <= Len(arr) THEN arr[i] ELSE NoneObj
        /\ app.output.value.forecast_start = IF ForecastTimes = <<>> THEN "" ELSE ForecastTimes[1]
        /\ app.output.value.forecast_end = IF ForecastTimes = <<>> THEN "" ELSE ForecastTimes[Len(ForecastTimes)]

\* a daily forecast of two days whose temperature array has one value
C28_Witness ==
    /\ app.fn = "get_daily_forecast"
    /\ Len(ForecastTimes) = 2
    /\ Len(Get(ForecastSection, "temperature_2m_max", <<>>)) = 1
    /\ Len(app.output.value.days) = 2
    /\ app.output.value.days[2].temperature_max = NoneObj
    /\ app.output.value.forecast_end = ForecastTimes[2]

\* C29: in every data point of a forecast, weather_description is the
\* description of the weather_code of that point; a point whose code is None
\* or unknown is described as "Unknown weather condition", never "Clear sky".
C29_DescriptionMatchesCode ==
    IsForecast =>
        \A i \in 1..Len(ForecastPoints) :
            /\ ForecastPoints[i].weather_description = get_weather_description(ForecastPoints[i].weather_code)
            /\ ForecastPoints[i].weather_code = NoneObj => ForecastPoints[i].weather_description # "Clear sky"

\* the ids an error envelope written for a line may carry: null, or the id of
\* the line when the line holds a request
IdsOfLine(line) == {None} \cup (IF line.kind = "object" THEN {line.id} ELSE {})

\* C30: every error envelope the stdio server writes while it handles a line
\* carries the id of that line or null, also when the line could not be read
\* or decoded; it never carries the id of a line handled earlier.
C30_ErrorCarriesCurrentIdOrNull ==
    \A k \in 1..Len(stdin) :
        \A j \in 1..Len(OutOf(k)) :
            HasError(OutOf(k)[j]) => OutOf(k)[j].id \in IdsOfLine(stdin[k])
====
